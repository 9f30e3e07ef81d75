--------------------------- MODULE NetThreadProofs ---------------------------
(***************************************************************************)
(* Proofs about NetThread for any number of connections, descriptors,      *)
(* handlers and commands, any index and any queue limit: the command queue *)
(* and the use of the list of connections, the types, then the invariant   *)
(* of the loop (LoopInv) with what follows from it for the registrations,  *)
(* the callbacks and the edges, the assertions of the list (FailInv) and   *)
(* the order of the commands (ReplyInv).                                   *)
(***************************************************************************)
EXTENDS NetThread, SequenceTheorems, TLAPS

LP == INSTANCE ConnectorListProofs

-----------------------------------------------------------------------------
(* The command queue.                                                      *)

\* NoLostNotify, and the type of the one variable its proof looks into.
NotifyInv == NoLostNotify /\ hnote \in [Handlers -> BOOLEAN]

\* A command that is queued before the first epoll_wait is covered by the
\* event that registering the descriptor raises.
LEMMA NotifyInit == Init => NotifyInv
BY DEF Init, NotifyInv, NoLostNotify

\* Every step keeps the promise that somebody will look at the queue.
LEMMA NotifyNext == NotifyInv /\ [Next]_vars => NotifyInv'
<1>1. SUFFICES ASSUME NotifyInv, [Next]_vars PROVE NotifyInv'
  OBVIOUS
<1>2. CASE EpollWait
  BY <1>1, <1>2 DEF EpollWait, NotifyInv, NoLostNotify, hanv
<1>3. ASSUME NEW f, OnReadable(f) PROVE NotifyInv'
  <2>1. /\ sendq' = sendq /\ ready' = ready /\ hnote' = hnote
        /\ batch' = batch \ {f} /\ npc = "wait"
    BY <1>3 DEF OnReadable, Takes, hanv
  <2>2. f # Notify
    BY <1>3, NetAssumption DEF OnReadable, NetAssumption, Notify
  <2>3. QED
    BY <1>1, <2>1, <2>2 DEF NotifyInv, NoLostNotify
<1>4. CASE OnNotify
  BY <1>1, <1>4 DEF OnNotify, NotifyInv, NoLostNotify, hanv
<1>5. CASE OnTimer
  <2>1. /\ sendq' = sendq /\ ready' = ready /\ hnote' = hnote
        /\ batch' = batch \ {Timer} /\ npc = "wait"
    BY <1>5 DEF OnTimer, Takes, hanv
  <2>2. Timer # Notify
    BY DEF Timer, Notify
  <2>3. QED
    BY <1>1, <2>1, <2>2 DEF NotifyInv, NoLostNotify
<1>6. ASSUME UNCHANGED <<sendq, batch, hnote>>, ready' = ready, npc # "drain"
      PROVE  NotifyInv'
  BY <1>1, <1>6 DEF NotifyInv, NoLostNotify
<1>7. CASE ReadNothing \/ ReadGet \/ ReadData \/ ReadEnd
  BY <1>6, <1>7 DEF ReadNothing, ReadGet, ReadData, ReadEnd, hanv
<1>8. ASSUME NEW x, PushOwn(x) PROVE NotifyInv'
  BY <1>1, <1>8 DEF PushOwn, NotifyInv, NoLostNotify, hanv
<1>9. CASE Execute
  BY <1>1, <1>9 DEF Execute, NotifyInv, NoLostNotify, netv, hanv
<1>10. CASE DrainEnd
  BY <1>1, <1>10 DEF DrainEnd, NotifyInv, NoLostNotify, hanv
<1>11. ASSUME UNCHANGED <<sendq, batch, npc, hnote>>,
              ready \subseteq ready'
       PROVE  NotifyInv'
  BY <1>1, <1>11 DEF NotifyInv, NoLostNotify
<1>12. ASSUME NEW c \in Conn, Accept(c) \/ Reject(c) PROVE NotifyInv'
  BY <1>11, <1>12 DEF Accept, Reject, netv, hanv
<1>13. CASE AcceptStep
  <2>1. CASE AddToList \/ Undo
    BY <1>11, <2>1 DEF AddToList, Undo, netv, hanv
  <2>2. CASE Watch
    <3>1. UNCHANGED <<sendq, batch, npc, hnote>>
      BY <2>2 DEF Watch, netv, hanv
    <3>2. ready \subseteq ready'
      BY <2>2 DEF Watch
    <3>3. QED
      BY <1>11, <3>1, <3>2
  <2>3. QED
    BY <1>13, <2>1, <2>2 DEF AcceptStep
<1>14. ASSUME NEW h \in Handlers, Push(h) PROVE NotifyInv'
  <2>1. hnote' = [hnote EXCEPT ![h] = TRUE] /\ hnote \in [Handlers -> BOOLEAN]
    BY <1>1, <1>14 DEF Push, Pushed, NotifyInv
  <2>2. hnote' \in [Handlers -> BOOLEAN] /\ hnote'[h]
    BY <2>1
  <2>3. QED
    BY <2>2 DEF NotifyInv, NoLostNotify
<1>15. ASSUME NEW h \in Handlers, Wake(h) PROVE NotifyInv'
  BY <1>1, <1>15 DEF Wake, NotifyInv, NoLostNotify
<1>16. ASSUME NEW h \in Handlers, NEW c, NEW p, Begin(h, c, p)
       PROVE  NotifyInv'
  BY <1>11, <1>16 DEF Begin, netv
<1>17. ASSUME NEW c \in Conn, PeerSends(c) \/ PeerCloses(c)
       PROVE  NotifyInv'
  BY <1>11, <1>17 DEF PeerSends, PeerCloses, Edge, netv, hanv
<1>18. CASE Clock
  <2>1. ready' \in {ready, ready \cup {Timer}}
    BY <1>18 DEF Clock
  <2>2. UNCHANGED <<sendq, batch, npc, hnote>>
    BY <1>18 DEF Clock, netv, hanv
  <2>3. QED
    BY <1>11, <2>1, <2>2
<1>19. CASE UNCHANGED vars
  BY <1>11, <1>19 DEF vars, netv, hanv
<1>20. QED
  BY <1>1, <1>2, <1>3, <1>4, <1>5, <1>7, <1>8, <1>9, <1>10, <1>12, <1>13,
     <1>14, <1>15, <1>16, <1>17, <1>18, <1>19
  DEF Next, NetStep, HandlerStep

\* A command put into sendlist is never forgotten: the network thread is
\* working through the queue or there is an event that will make it, however
\* the pushes, the notifications and the draining interleave.
THEOREM NotifyNeverLost == Spec => []NoLostNotify
<1>1. NotifyInv => NoLostNotify
  BY DEF NotifyInv
<1>2. QED
  BY <1>1, NotifyInit, NotifyNext, PTL DEF Spec

-----------------------------------------------------------------------------
(* The list of connections.                                                *)

\* The class as NetThread sees it and as the proofs about it see it.
LEMMA SameList ==
  /\ L!Init <=> LP!Init
  /\ [L!Next]_(L!lvars) <=> [LP!Next]_(LP!lvars)
<1>1. L!Init <=> LP!Init
  BY DEF L!Init, LP!Init, L!Slots, LP!Slots
<1>2. L!Next <=> LP!Next
  BY DEF L!Next, LP!Next, L!GetUniqId, LP!GetUniqId, L!Add, LP!Add,
         L!Refresh, LP!Refresh, L!Del, LP!Del, L!CheckTimeout,
         LP!CheckTimeout, L!Overdue, LP!Overdue, L!Clock, LP!Clock,
         L!Slots, LP!Slots, L!Unset, LP!Unset, L!Abort, LP!Abort,
         L!Lookup, LP!Lookup
<1>3. QED
  BY <1>1, <1>2 DEF L!lvars, LP!lvars

\* What shows that every step of NetThread is a step of ConnectorList: the
\* list leads to connections only, the accepting thread adds one that has an
\* id, and read_data refreshes an id that was handed out.
UseInv ==
  /\ LP!SlotInv
  /\ apc # "idle" => anew \in Conn /\ id[anew] \in 1..Total
  /\ apc = "list" => anew \in handed
  /\ npc = "got" => cur \in Conn /\ id[cur] \in 1..Total

\* It holds at the start.
LEMMA UseInit == Init => UseInv
<1>1. SUFFICES ASSUME Init PROVE UseInv
  OBVIOUS
<1>2. LP!Init
  BY <1>1, SameList DEF Init
<1>3. LP!SlotInv
  BY <1>2, LP!SlotInit, NetAssumption DEF NetAssumption
<1>4. QED
  BY <1>1, <1>3 DEF Init, UseInv

\* A connection that is found has the id it was found by.
LEMMA FoundId ==
  ASSUME UseInv, NEW s, L!Lookup(s) # NoConn
  PROVE  s \in 1..Total /\ L!Lookup(s) \in Conn /\ id[L!Lookup(s)] = s
BY DEF UseInv, LP!SlotInv, LP!TypeOK, LP!IdsUnique, LP!Slots, L!Lookup, L!Slots

\* Every step of the threads, the peers and the clock calls one function of
\* the list for an id that was handed out, or none.
LEMMA UseStep == UseInv /\ [Next]_vars => [L!Next]_(L!lvars)
<1>1. SUFFICES ASSUME UseInv, [Next]_vars PROVE [L!Next]_(L!lvars)
  OBVIOUS
<1>3. CASE UNCHANGED lvars
  BY <1>3 DEF lvars, L!lvars
<1>12. ASSUME NEW i \in 1..Total, L!Refresh(i) \/ L!Del(i)
       PROVE  [L!Next]_(L!lvars)
  BY <1>12 DEF L!Next, L!Slots
<1>4. CASE NetStep
  <2>1. CASE \/ EpollWait \/ OnNotify \/ ReadNothing \/ ReadGet \/ ReadEnd
             \/ DrainEnd
             \/ \E f \in batch : OnReadable(f)
             \/ \E x \in own : PushOwn(x)
    BY <1>3, <2>1
    DEF EpollWait, OnNotify, ReadNothing, ReadGet, ReadEnd, DrainEnd,
        OnReadable, PushOwn
  <2>2. CASE OnTimer
    BY <1>3, <2>2 DEF OnTimer, L!Next
  <2>3. CASE ReadData
    BY <1>1, <1>12, <2>3 DEF ReadData, UseInv
  <2>4. CASE Execute
    <3>1. PICK x, t : x = Head(sendq) /\ t = Target(x)
      OBVIOUS
    <3>2. t # NoConn => id[x.conn] \in 1..Total
      BY <1>1, <3>1, FoundId DEF Target
    <3>3. \/ UNCHANGED lvars
          \/ t # NoConn /\ DoClose(t, x)
      BY <2>4, <3>1 DEF Execute, DoSend, DoSetData
    <3>4. QED
      BY <1>3, <1>12, <3>2, <3>3 DEF DoClose
  <2>5. QED
    BY <1>4, <2>1, <2>2, <2>3, <2>4 DEF NetStep
<1>5. ASSUME NEW c \in Conn, Accept(c) \/ Reject(c) PROVE [L!Next]_(L!lvars)
  BY <1>3, <1>5 DEF Accept, Reject, L!Next
<1>6. CASE AcceptStep
  <2>1. CASE AddToList
    BY <1>1, <2>1 DEF UseInv, AddToList, L!Next
  <2>2. CASE Watch
    BY <1>3, <2>2 DEF Watch
  <2>3. CASE Undo
    BY <1>1, <1>12, <2>3 DEF UseInv, Undo
  <2>4. QED
    BY <1>6, <2>1, <2>2, <2>3 DEF AcceptStep
<1>7. ASSUME NEW h \in Handlers, HandlerStep(h) PROVE [L!Next]_(L!lvars)
  BY <1>3, <1>7 DEF HandlerStep, Push, Wake
<1>8. ASSUME NEW h \in Handlers, NEW c, NEW p, Begin(h, c, p)
      PROVE  [L!Next]_(L!lvars)
  BY <1>3, <1>8 DEF Begin
<1>9. ASSUME NEW c \in Conn, PeerSends(c) \/ PeerCloses(c)
      PROVE  [L!Next]_(L!lvars)
  BY <1>3, <1>9 DEF PeerSends, PeerCloses
<1>10. CASE Clock
  BY <1>10 DEF Clock, L!Next
<1>11. QED
  BY <1>1, <1>3, <1>4, <1>5, <1>6, <1>7, <1>8, <1>9, <1>10 DEF Next, vars

\* An id is handed out once, and nothing else of what a connection waits
\* with changes but by GetUniqId and Add.
LEMMA IdKept ==
  ASSUME UseInv, [L!Next]_(L!lvars)
  PROVE  /\ \A c \in Conn : id[c] \in 1..Total => id'[c] \in 1..Total
         /\ handed \subseteq handed' \/ \E c \in Conn : L!Add(c)
<1>1. free \in Seq(1..Total) /\ id \in [Conn -> {0} \cup 1..Total]
  BY DEF UseInv, LP!SlotInv, LP!TypeOK, LP!Slots
<1>2. ASSUME NEW c \in Conn, L!GetUniqId(c)
      PROVE  /\ \A d \in Conn : id[d] \in 1..Total => id'[d] \in 1..Total
             /\ handed \subseteq handed'
  <2>1. Head(free) \in 1..Total
    BY <1>1, <1>2, HeadTailProperties DEF L!GetUniqId, L!Unset
  <2>2. id' = [id EXCEPT ![c] = Head(free)] /\ handed' = handed \cup {c}
    BY <1>2 DEF L!GetUniqId
  <2>. QED BY <1>1, <2>1, <2>2
<1>3. ASSUME NEW c \in Conn, L!Add(c) PROVE id' = id
  BY <1>3 DEF L!Add, L!Abort
<1>4. ASSUME NEW i, L!Refresh(i) \/ L!Del(i) PROVE id' = id /\ handed' = handed
  BY <1>4 DEF L!Refresh, L!Del, L!Abort
<1>5. CASE L!CheckTimeout \/ L!Clock \/ UNCHANGED L!lvars
  BY <1>5 DEF L!CheckTimeout, L!Clock, L!lvars
<1>. QED BY <1>2, <1>3, <1>4, <1>5 DEF L!Next

\* Every step keeps what UseStep needs.
LEMMA UseNext == UseInv /\ [Next]_vars => UseInv'
<1>1. SUFFICES ASSUME UseInv, [Next]_vars PROVE UseInv'
  OBVIOUS
<1>2. LP!SlotInv'
  BY <1>1, UseStep, SameList, LP!SlotNext, NetAssumption
  DEF UseInv, NetAssumption
<1>3. \A c \in Conn : id[c] \in 1..Total => id'[c] \in 1..Total
  BY <1>1, UseStep, IdKept
<1>. DEFINE AccNew == /\ apc' # "idle" => anew' \in Conn /\ id'[anew'] \in 1..Total
                      /\ apc' = "list" => anew' \in handed'
            GotNew == npc' = "got" => cur' \in Conn /\ id'[cur'] \in 1..Total
<1>4. ASSUME UNCHANGED accv, handed \subseteq handed' PROVE AccNew
  BY <1>1, <1>3, <1>4 DEF UseInv, accv
<1>5. ASSUME UNCHANGED <<npc, cur>> PROVE GotNew
  BY <1>1, <1>3, <1>5 DEF UseInv
<1>6. ASSUME NEW c \in Conn, Accept(c) PROVE AccNew /\ GotNew
  <2>1. /\ free \in Seq(1..Total) /\ id \in [Conn -> {0} \cup 1..Total]
    BY <1>1 DEF UseInv, LP!SlotInv, LP!TypeOK, LP!Slots
  <2>2. /\ anew' = c /\ id' = [id EXCEPT ![c] = Head(free)] /\ free # <<>>
        /\ handed' = handed \cup {c}
    BY <1>6 DEF Accept, L!GetUniqId, L!Unset
  <2>3. Head(free) \in 1..Total
    BY <2>1, <2>2, HeadTailProperties
  <2>4. UNCHANGED <<npc, cur>>
    BY <1>6 DEF Accept, netv, curv
  <2>. QED BY <1>5, <2>1, <2>2, <2>3, <2>4
<1>7. ASSUME AcceptStep PROVE AccNew /\ GotNew
  <2>1. UNCHANGED <<npc, cur>>
    BY <1>7 DEF AcceptStep, AddToList, Watch, Undo, netv, curv
  <2>2. apc # "idle" /\ anew' = anew /\ apc' # "list"
    BY <1>7 DEF AcceptStep, AddToList, Watch, Undo
  <2>. QED BY <1>1, <1>3, <1>5, <2>1, <2>2 DEF UseInv
<1>9. ASSUME NetStep PROVE AccNew /\ GotNew
  <2>1. UNCHANGED accv
    BY <1>9
    DEF NetStep, EpollWait, OnReadable, OnNotify, OnTimer, ReadNothing, ReadGet,
        ReadData, ReadEnd, PushOwn, Execute, DrainEnd
  <2>2. handed' = handed
    <3>1. CASE OnTimer
      BY <3>1 DEF OnTimer, L!CheckTimeout, lvars
    <3>2. CASE ReadData
      BY <3>2 DEF ReadData, L!Refresh, L!Abort
    <3>3. CASE Execute
      <4>1. \/ UNCHANGED lvars
            \/ \E i : L!Del(i)
        BY <3>3 DEF Execute, DoSend, DoSetData, DoClose
      <4>. QED BY <4>1 DEF L!Del, L!Abort, lvars
    <3>4. CASE ~OnTimer /\ ~ReadData /\ ~Execute
      BY <1>9, <3>4
      DEF NetStep, EpollWait, OnReadable, OnNotify, ReadNothing, ReadGet,
          ReadEnd, PushOwn, DrainEnd, lvars
    <3>. QED BY <3>1, <3>2, <3>3, <3>4
  <2>3. CASE ReadGet
    <3>1. PICK c : c = L!Lookup(Head(todo))
      OBVIOUS
    <3>2. c # NoConn /\ cur' = c /\ id' = id
      BY <2>3, <3>1 DEF ReadGet, lvars
    <3>. QED BY <1>1, <1>4, <2>1, <2>2, <3>1, <3>2, FoundId
  <2>4. CASE ~ReadGet
    <3>1. npc' # "got" \/ UNCHANGED <<npc, cur>>
      BY <1>9, <2>4
      DEF NetStep, EpollWait, OnReadable, OnNotify, OnTimer, ReadNothing, Resume,
          ReadData, ReadEnd, PushOwn, PushedAll, Execute, DrainEnd, netv, curv,
          Takes
    <3>. QED BY <1>4, <1>5, <2>1, <2>2, <3>1
  <2>. QED BY <2>3, <2>4
<1>10. ASSUME NEW c \in Conn, Reject(c) \/ PeerSends(c) \/ PeerCloses(c)
       PROVE  AccNew /\ GotNew
  <2>1. UNCHANGED <<npc, cur, handed>> /\ UNCHANGED accv
    BY <1>10 DEF Reject, PeerSends, PeerCloses, netv, curv, lvars
  <2>. QED BY <1>4, <1>5, <2>1
<1>11. ASSUME NEW h, HandlerStep(h) \/ \E c, p : Begin(h, c, p)
       PROVE  AccNew /\ GotNew
  <2>1. UNCHANGED <<npc, cur, handed>> /\ UNCHANGED accv
    BY <1>11 DEF HandlerStep, Push, Wake, Begin, netv, curv, lvars
  <2>. QED BY <1>4, <1>5, <2>1
<1>12. ASSUME Clock \/ UNCHANGED vars PROVE AccNew /\ GotNew
  <2>1. UNCHANGED <<npc, cur, handed>> /\ UNCHANGED accv
    BY <1>12 DEF Clock, L!Clock, vars, netv, curv, lvars
  <2>. QED BY <1>4, <1>5, <2>1
<1>13. AccNew /\ GotNew
  BY <1>1, <1>6, <1>7, <1>9, <1>10, <1>11, <1>12 DEF Next
<1>. QED BY <1>2, <1>13 DEF UseInv

\* NetThread calls the list as ConnectorList allows it to be called.
LEMMA ListUsed == Spec => L!Spec
<1>1. Init => L!Init
  BY DEF Init
<1>2. QED
  BY <1>1, UseInit, UseNext, UseStep, PTL DEF Spec, L!Spec

\* So what is proved of the list alone holds inside the network thread: an id
\* leads to one connection, and no erase of refresh and del uses a dangling
\* iterator, with any number of handlers, peers and commands.
THEOREM ListSound == Spec => [](LP!IdsUnique /\ LP!TimeListExact)
<1>1. NoConn \notin Conn
  BY NetAssumption DEF NetAssumption
<1>2. LP!Spec => []LP!IdsUnique
  BY <1>1, LP!IdsAreUnique, NetAssumption DEF NetAssumption
<1>3. LP!Spec => []LP!TimeListExact
  BY <1>1, LP!TimeListIsExact, NetAssumption DEF NetAssumption
<1>4. L!Spec => LP!Spec
  BY SameList, PTL DEF L!Spec, LP!Spec
<1>5. QED
  BY <1>2, <1>3, <1>4, ListUsed, PTL

-----------------------------------------------------------------------------
(* What the list tells the network thread.                                 *)

Listed(c)  == L!IsListed(c)

\* The list of the code under the names of this module.
LEMMA ListFacts ==
  ASSUME UseInv
  PROVE  /\ id \in [Conn -> {0} \cup 1..Total] /\ handed \subseteq Conn
         /\ \A c \in Conn : Listed(c) => L!Lookup(id[c]) = c /\ id[c] \in 1..Total
         /\ \A c \in handed : ~Listed(c) /\ id[c] \in 1..Total
         /\ \A s : L!Lookup(s) # NoConn => /\ L!Lookup(s) \in Conn
                                           /\ Listed(L!Lookup(s))
                                           /\ id[L!Lookup(s)] = s
<1>1. /\ id \in [Conn -> {0} \cup 1..Total] /\ handed \subseteq Conn
      /\ vConn \in [1..Total -> Conn \cup {NoConn}] /\ NoConn \notin Conn
      /\ \A s \in 1..Total : vConn[s] # NoConn => id[vConn[s]] = s /\ vConn[s] \notin handed
      /\ \A c \in handed : id[c] \in 1..Total /\ vConn[id[c]] = NoConn
  BY NetAssumption
  DEF UseInv, LP!SlotInv, LP!TypeOK, LP!IdsUnique, LP!Slots, NetAssumption
<1>2. ASSUME NEW c \in Conn, Listed(c) PROVE L!Lookup(id[c]) = c /\ id[c] \in 1..Total /\ c \notin handed
  BY <1>1, <1>2 DEF Listed, L!IsListed, L!Lookup, L!Slots
<1>3. ASSUME NEW s, L!Lookup(s) # NoConn
      PROVE  /\ L!Lookup(s) \in Conn /\ Listed(L!Lookup(s))
             /\ id[L!Lookup(s)] = s
  BY <1>1, <1>3 DEF Listed, L!IsListed, L!Lookup, L!Slots
<1>. QED BY <1>1, <1>2, <1>3

\* checkTimeout meets listed connections only.
LEMMA OverdueListed ==
  ASSUME UseInv, LP!TimeListExact
  PROVE  \A c \in L!Overdue : c \in Conn /\ Listed(c)
<1>1. SUFFICES ASSUME NEW e \in tl PROVE vConn[e[2]] \in Conn /\ Listed(vConn[e[2]])
  BY DEF L!Overdue
<1>2. e[2] \in 1..Total /\ vConn[e[2]] # NoConn
  BY <1>1 DEF LP!TimeListExact, LP!Slots
<1>. QED BY <1>2, ListFacts DEF L!Lookup, L!Slots

\* What the functions of the list do to it.
LEMMA GetEffect ==
  ASSUME UseInv, NEW c \in Conn, L!GetUniqId(c)
  PROVE  /\ id' = [id EXCEPT ![c] = Head(free)] /\ Head(free) \in 1..Total /\ id[c] = 0
         /\ handed' = handed \cup {c}
         /\ \A d \in Conn : Listed(d)' <=> Listed(d)
<1>1. free \in Seq(1..Total)
  BY DEF UseInv, LP!SlotInv, LP!TypeOK, LP!Slots
<1>2. vConn' = vConn /\ free # <<>> /\ id[c] = 0
  BY DEF L!GetUniqId, L!Unset
<1>3. Head(free) \in 1..Total
  BY <1>1, <1>2, HeadTailProperties
<1>4. \A d \in Conn : Listed(d)' <=> Listed(d)
  BY <1>2 DEF Listed, L!IsListed, L!Slots
<1>. QED BY <1>2, <1>3, <1>4 DEF L!GetUniqId

LEMMA AddEffect ==
  ASSUME UseInv, NEW c \in Conn, c \in handed, L!Add(c)
  PROVE  /\ id' = id /\ handed' = handed \ {c} /\ failed' = failed
         /\ \A d \in Conn : Listed(d)' <=> Listed(d) \/ d = c
<1>1. /\ vConn \in [1..Total -> Conn \cup {NoConn}] /\ NoConn \notin Conn
      /\ id[c] \in 1..Total /\ vConn[id[c]] = NoConn
  BY NetAssumption
  DEF UseInv, LP!SlotInv, LP!TypeOK, LP!IdsUnique, LP!Slots, NetAssumption
<1>2. /\ vConn' = [vConn EXCEPT ![id[c]] = c]
      /\ id' = id /\ handed' = handed \ {c} /\ failed' = failed
  BY <1>1 DEF L!Add, L!Lookup, L!Slots
<1>3. ASSUME NEW d \in Conn PROVE Listed(d)' <=> Listed(d) \/ d = c
  BY <1>1, <1>2, <1>3 DEF Listed, L!IsListed, L!Slots
<1>. QED BY <1>2, <1>3

\* del of an id that leads to nobody fails an assertion.
LEMMA DelEffect ==
  ASSUME UseInv, NEW s \in 1..Total, L!Del(s)
  PROVE  /\ id' = id /\ handed' = handed
         /\ \A d \in Conn : Listed(d)' <=> Listed(d) /\ d # L!Lookup(s)
         /\ failed' = failed \/ L!Lookup(s) = NoConn
<1>1. /\ vConn \in [1..Total -> Conn \cup {NoConn}] /\ NoConn \notin Conn
      /\ \A r \in 1..Total : vConn[r] # NoConn => id[vConn[r]] = r
  BY NetAssumption
  DEF UseInv, LP!SlotInv, LP!TypeOK, LP!IdsUnique, LP!Slots, NetAssumption
<1>2. CASE L!Lookup(s) = NoConn
  <2>1. UNCHANGED <<vConn, id, handed>>
    BY <1>2 DEF L!Del, L!Abort
  <2>. QED BY <1>1, <1>2, <2>1 DEF Listed, L!IsListed, L!Slots, L!Lookup
<1>3. CASE L!Lookup(s) # NoConn
  <2>1. /\ vConn' = [vConn EXCEPT ![s] = NoConn] /\ L!Lookup(s) = vConn[s]
        /\ id' = id /\ handed' = handed /\ failed' = failed
    BY <1>3 DEF L!Del, L!Lookup, L!Slots
  <2>2. ASSUME NEW d \in Conn PROVE Listed(d)' <=> Listed(d) /\ d # vConn[s]
    BY <1>1, <1>3, <2>1, <2>2 DEF Listed, L!IsListed, L!Slots
  <2>. QED BY <2>1, <2>2
<1>. QED BY <1>2, <1>3

\* refresh of an id that leads to nobody fails one, too.
LEMMA RefreshEffect ==
  ASSUME NEW s, L!Refresh(s)
  PROVE  /\ UNCHANGED <<vConn, id, handed>>
         /\ failed' = failed \/ L!Lookup(s) = NoConn
BY DEF L!Refresh, L!Abort

\* Steps that do not add or remove a connection.
ListSame == UNCHANGED <<vConn, id, handed>>

LEMMA SameEffect ==
  ASSUME ListSame PROVE \A d : Listed(d)' <=> Listed(d)
BY DEF ListSame, Listed, L!IsListed

-----------------------------------------------------------------------------
(* Types.                                                                  *)

\* The variables, what makes the list exact, and what the accepting thread and
\* the sockets have by the time their ids and descriptors are used.
TypeInv ==
  /\ TypeOK
  /\ UseInv
  /\ LP!TimeListExact
  /\ apc # "idle" => id[anew] \in 1..Total /\ sock[anew].st # "new"
  /\ \A c \in Conn : /\ sock[c].st # "new" => Fd(c) \in Fds
                     /\ Listed(c) => sock[c].st # "new"
  /\ \A f \in Fds : anfd[f].used => anfd[f].evs # <<>>
  /\ npc = "read" => todo # <<>>
  /\ npc \in {"wait", "read", "drain"} => cur = NoConn
  /\ cur # NoConn => sock[cur].st # "new"

\* The record of a socket, and what the steps change in it.
Socket == [st : {"new", "open", "closed"}, fd : {0} \cup Fds,
           data : {"none", "unread", "read"}, fin : BOOLEAN]

LEMMA SocketType ==
  ASSUME sock \in [Conn -> Socket], NEW c \in Conn, NEW f,
         \/ sock' = sock
         \/ sock' = [sock EXCEPT ![c].data = "unread"]
         \/ sock' = [sock EXCEPT ![c].data = "read"]
         \/ sock' = [sock EXCEPT ![c].fin = TRUE]
         \/ f \in Fds /\ sock' = [sock EXCEPT ![c].st = "open", ![c].fd = f]
         \/ sock' = [sock EXCEPT ![c].st = "closed"]
  PROVE  sock' \in [Conn -> Socket]
<1>1. sock[c] \in Socket
  OBVIOUS
<1>2. /\ [sock[c] EXCEPT !.data = "unread"] \in Socket
      /\ [sock[c] EXCEPT !.data = "read"] \in Socket
      /\ [sock[c] EXCEPT !.fin = TRUE] \in Socket
      /\ f \in Fds => [sock[c] EXCEPT !.st = "open", !.fd = f] \in Socket
      /\ [sock[c] EXCEPT !.st = "closed"] \in Socket
  BY <1>1 DEF Socket
<1>. QED BY <1>2

\* Nothing happened yet.
LEMMA TypeInvInit == Init => TypeInv
<1>1. SUFFICES ASSUME Init PROVE TypeInv
  OBVIOUS
<1>2. UseInv /\ LP!TimeListExact
  BY <1>1, UseInit, SameList, LP!TimeInit, NetAssumption DEF Init, NetAssumption
<1>3. /\ sock \in [Conn -> Socket]
      /\ \A c \in Conn : sock[c].st = "new"
  BY <1>1 DEF Init, Socket
<1>4. anfd \in [Fds -> [used : BOOLEAN, evs : Seq(1..Total), flag : BOOLEAN]]
  BY <1>1, EmptySeq DEF Init
<1>5. /\ sendq \in Seq(Command) /\ Len(sendq) <= QCap /\ todo \in Seq(1..Total)
      /\ hcmds \in [Handlers -> Seq(Command)] /\ hnote \in [Handlers -> BOOLEAN]
      /\ cbs \in [Conn -> Nat] /\ begun \in 0..Budget
  BY <1>1, EmptySeq, NetAssumption DEF Init, NetAssumption
<1>6. TypeOK
  BY <1>1, <1>3, <1>4, <1>5 DEF Init, TypeOK, Socket
<1>7. /\ apc = "idle" /\ npc = "wait" /\ cur = NoConn
      /\ \A f \in Fds : ~anfd[f].used
  BY <1>1 DEF Init
<1>8. \A c \in Conn : ~Listed(c)
  BY <1>1, NetAssumption DEF Init, L!Init, Listed, L!IsListed, NetAssumption
<1>. QED BY <1>2, <1>3, <1>6, <1>7, <1>8 DEF TypeInv

\* Every step uses the list as its proofs demand.
LEMMA ListNext == UseInv /\ LP!TimeListExact /\ [Next]_vars => UseInv' /\ LP!TimeListExact'
<1>1. SUFFICES ASSUME UseInv, LP!TimeListExact, [Next]_vars PROVE UseInv' /\ LP!TimeListExact'
  OBVIOUS
<1>2. [LP!Next]_(LP!lvars)
  BY <1>1, UseStep, SameList
<1>3. LP!TimeInv
  BY <1>1 DEF UseInv, LP!TimeInv
<1>4. LP!TimeListExact'
  BY <1>2, <1>3, LP!TimeNext, NetAssumption DEF NetAssumption
<1>. QED BY <1>1, <1>4, UseNext

\* The types of the variables that each step changes.
LEMMA TypeNext == TypeInv /\ [Next]_vars => TypeOK'
<1>1. SUFFICES ASSUME TypeInv, [Next]_vars PROVE TypeOK'
  OBVIOUS
<1>2. TypeOK /\ UseInv /\ sock \in [Conn -> Socket]
  BY <1>1 DEF TypeInv, TypeOK, Socket
<1>3. ASSUME NEW c \in Conn, PeerSends(c) \/ PeerCloses(c) PROVE TypeOK'
  <2>1. sock' \in [Conn -> Socket]
    BY <1>2, <1>3, SocketType DEF PeerSends, PeerCloses
  <2>2. ready' \subseteq Fds \cup {Notify, Timer}
    BY <1>2, <1>3 DEF TypeOK, PeerSends, PeerCloses, Edge
  <2>. QED BY <1>2, <1>3, <2>1, <2>2
       DEF TypeOK, Socket, PeerSends, PeerCloses, loopv, netv, curv, accv, hanv, seen, repv
<1>4. CASE Clock
  BY <1>2, <1>4 DEF TypeOK, Clock, loopv, netv, curv, accv, hanv, seen, repv
<1>5. ASSUME NEW c \in Conn, Accept(c) \/ Reject(c) PROVE TypeOK'
  <2>1. PICK f \in Fds : sock' = [sock EXCEPT ![c].st = "open", ![c].fd = f]
    BY <1>5 DEF Accept, Reject, Accepted, FreeFds
  <2>2. sock' \in [Conn -> Socket]
    BY <1>2, <2>1, SocketType
  <2>. QED BY <1>2, <1>5, <2>2 DEF TypeOK, Socket, Accept, Reject, loopv, netv, curv, accv, hanv, seen, repv
<1>6. CASE AddToList
  BY <1>2, <1>6 DEF TypeOK, AddToList, loopv, netv, curv, accv, hanv, seen, repv
<1>7. CASE Watch
  <2>0. PICK c, f : c = anew /\ f = Fd(anew)
    OBVIOUS
  <2>1. /\ anfd[f] \in [used : BOOLEAN, evs : Seq(1..Total), flag : BOOLEAN] \/ f \notin Fds
        /\ id[c] \in 1..Total /\ anfd \in [Fds -> [used : BOOLEAN, evs : Seq(1..Total), flag : BOOLEAN]]
    BY <1>1, <1>2, <1>7, <2>0 DEF TypeInv, TypeOK, Watch
  <2>2. f \in Fds => WithEvent(f, id[c]) \in Seq(1..Total)
    <3>1. f \in Fds => <<id[c]>> \in Seq(1..Total)
      BY <2>1
    <3>2. f \in Fds => Append(anfd[f].evs, id[c]) \in Seq(1..Total)
      BY <2>1, AppendProperties
    <3>. QED BY <2>1, <3>1, <3>2 DEF WithEvent
  <2>3. anfd' \in [Fds -> [used : BOOLEAN, evs : Seq(1..Total), flag : BOOLEAN]]
    <3>1. CASE anfd' = [anfd EXCEPT ![f] = [used |-> TRUE, evs |-> WithEvent(f, id[c]), flag |-> TRUE]]
      BY <2>1, <2>2, <3>1
    <3>2. CASE anfd' = [anfd EXCEPT ![f].used = TRUE, ![f].evs = WithEvent(f, id[c])]
      BY <2>1, <2>2, <3>2
    <3>. QED BY <1>7, <2>0, <3>1, <3>2 DEF Watch
  <2>4. /\ UNCHANGED <<sock, batch, sendq, netv, anew, known, hanv, seen>>
        /\ epoll' \in {epoll, epoll \cup {f}} /\ ready' \in {ready, ready \cup {f}}
        /\ apc' \in {"idle", "undo"}
    BY <1>7, <2>0 DEF Watch
  <2>5. f \in Fds
    <3>1. anew \in Conn /\ sock[anew].st # "new"
      BY <1>1, <1>2, <1>7 DEF Watch, UseInv, TypeInv
    <3>. QED BY <1>1, <2>0, <3>1 DEF TypeInv, Fd
  <2>. QED BY <1>2, <2>3, <2>4, <2>5 DEF TypeOK, netv, curv, hanv, seen, repv
<1>8. CASE Undo
  <2>1. anew \in Conn /\ sock' \in {sock, [sock EXCEPT ![anew].st = "closed"]}
    BY <1>2, <1>8 DEF Undo, UseInv
  <2>2. sock' \in [Conn -> Socket]
    BY <1>2, <2>1, SocketType
  <2>3. /\ apc' = "idle"
        /\ UNCHANGED <<anfd, epoll, ready, batch, sendq, npc, todo, own, cur, early, anew, known,
                       hcmds, hnote, begun, cbs, answered, left, dropped, replied, userData>>
    BY <1>8 DEF Undo, loopv, netv, curv, hanv, seen, repv
  <2>. QED BY <1>2, <2>2, <2>3 DEF TypeOK, Socket
<1>9. CASE EpollWait
  BY <1>2, <1>9 DEF TypeOK, EpollWait, loopv, netv, curv, accv, hanv, seen, repv
<1>10. ASSUME NEW f, OnReadable(f) PROVE TypeOK'
  BY <1>2, <1>10 DEF TypeOK, OnReadable, Takes, loopv, netv, curv, accv, hanv, seen, repv
<1>11. CASE OnNotify \/ DrainEnd
  BY <1>2, <1>11 DEF TypeOK, OnNotify, DrainEnd, Takes, loopv, netv, curv, accv, hanv, seen, repv
<1>12. CASE OnTimer
  <2>1. {Close(c) : c \in L!Overdue} \subseteq Command
    <3>1. \A c \in L!Overdue : Close(c) \in Command
      BY <1>1, OverdueListed DEF TypeInv, Close, Command
    <3>. QED BY <3>1
  <2>2. own' \subseteq Command /\ npc' \in {"wait", "push"} /\ batch' \subseteq batch
    BY <1>2, <1>12, <2>1 DEF TypeOK, OnTimer, Takes
  <2>. QED BY <1>2, <1>12, <2>2 DEF TypeOK, OnTimer, loopv, curv, accv, hanv, seen, repv
<1>13. CASE ReadNothing \/ ReadGet
  <2>1. todo' = Tail(todo) /\ npc' \in {Resume(todo'), "got"} /\ npc = "read"
    BY <1>13 DEF ReadNothing, ReadGet
  <2>2. todo' \in Seq(1..Total)
    <3>1. todo # <<>> /\ todo \in Seq(1..Total)
      BY <1>1, <1>2, <2>1 DEF TypeInv, TypeOK
    <3>. QED BY <2>1, <3>1, HeadTailProperties
  <2>3. cur' \in Conn \cup {NoConn}
    <3>1. PICK c : c = L!Lookup(Head(todo))
      OBVIOUS
    <3>2. c \in Conn \cup {NoConn}
      BY <1>2, <3>1, FoundId
    <3>. QED BY <1>2, <1>13, <3>1, <3>2 DEF TypeOK, ReadNothing, ReadGet, curv
  <2>4. early' \in BOOLEAN
    BY <1>2, <1>13 DEF TypeOK, ReadNothing, ReadGet, curv
  <2>5. npc' \in {"wait", "read", "got"}
    BY <2>1 DEF Resume
  <2>. QED BY <1>2, <1>13, <2>2, <2>3, <2>4, <2>5
       DEF TypeOK, ReadNothing, ReadGet, loopv, curv, accv, hanv, seen, repv
<1>20. CASE ReadData \/ ReadEnd
  <2>1. cur \in Conn /\ npc = "got"
    BY <1>2, <1>20 DEF ReadData, ReadEnd, UseInv
  <2>2. PICK d, e : /\ d = (IF sock[cur].data = "unread" THEN "read" ELSE sock[cur].data)
                    /\ e = IF ReadData THEN LetGo(cur) ELSE sock[cur].st
    OBVIOUS
  <2>3. sock[cur] \in Socket /\ sock[cur].st \in {"new", "open", "closed"}
    BY <1>2, <2>1 DEF Socket
  <2>4. d \in {"none", "unread", "read"} /\ e \in {"new", "open", "closed"}
    BY <2>2, <2>3 DEF LetGo, Socket
  <2>5. sock' \in [Conn -> Socket]
    <3>1. CASE ReadData
      <4>1. sock' = [sock EXCEPT ![cur].data = d, ![cur].st = e]
        BY <2>2, <3>1 DEF ReadData
      <4>. QED BY <1>2, <2>1, <2>3, <2>4, <4>1 DEF Socket
    <3>2. CASE ReadEnd
      BY <1>2, <2>1, <3>2, SocketType DEF ReadEnd
    <3>. QED BY <1>20, <3>1, <3>2
  <2>6. known' \subseteq Conn
    BY <1>2, <1>20, <2>1 DEF TypeOK, ReadData, ReadEnd
  <2>7. own' \subseteq Command
    <3>1. Close(cur) \in Command
      BY <2>1 DEF Close, Command
    <3>. QED BY <1>2, <1>20, <3>1 DEF TypeOK, ReadData, ReadEnd
  <2>8. npc' \in {"wait", "read", "push"} /\ todo' = todo /\ early' = early
        /\ cur' \in {cur, NoConn}
    BY <1>20 DEF ReadData, ReadEnd, Resume, curv
  <2>9. UNCHANGED <<anfd, epoll, ready, batch, sendq, apc, anew, hcmds, hnote, begun,
                    cbs, answered, left, dropped, replied, userData>>
    BY <1>20 DEF ReadData, ReadEnd, loopv, accv, hanv, seen, repv
  <2>. QED BY <1>2, <2>5, <2>6, <2>7, <2>8, <2>9 DEF TypeOK, Socket
<1>14. ASSUME NEW x \in own, PushOwn(x) PROVE TypeOK'
  <2>1. sendq' \in Seq(Command) /\ Len(sendq') <= QCap
    BY <1>2, <1>14, AppendProperties, LenProperties, NetAssumption
    DEF TypeOK, PushOwn, Accepts, NetAssumption
  <2>2. sock' \in [Conn -> Socket] /\ cur' \in Conn \cup {NoConn}
        /\ npc' \in {"wait", "read", "push"}
    <3>1. CASE UNCHANGED <<npc, cur, sock>>
      BY <1>2, <1>14, <3>1 DEF TypeOK, PushOwn
    <3>2. CASE PushedAll
      <4>1. cur # NoConn => cur \in Conn
        BY <1>2 DEF TypeOK
      <4>2. cur # NoConn =>
              \/ sock' = [sock EXCEPT ![cur].st = sock[cur].st]
              \/ sock' = [sock EXCEPT ![cur].st = "closed"]
        BY <3>2 DEF PushedAll, LetGo
      <4>3. sock' \in [Conn -> Socket]
        BY <1>2, <3>2, <4>1, <4>2 DEF PushedAll, Socket
      <4>. QED BY <3>2, <4>3 DEF PushedAll, Resume
    <3>. QED BY <1>14, <3>1, <3>2 DEF PushOwn
  <2>3. UNCHANGED <<anfd, epoll, batch, todo, early, apc, anew, known, hcmds, hnote, begun,
                    cbs, answered, left, dropped, replied, userData>>
    BY <1>14 DEF PushOwn, loopv, accv, hanv, seen, repv
  <2>4. own' \subseteq Command /\ ready' \subseteq Fds \cup {Notify, Timer}
    BY <1>2, <1>14 DEF TypeOK, PushOwn
  <2>. QED BY <1>2, <2>1, <2>2, <2>3, <2>4 DEF TypeOK, Socket
<1>15. CASE Execute
  <2>0. PICK x, t : x = Head(sendq) /\ t = Target(x)
    OBVIOUS
  <2>1. sendq' \in Seq(Command) /\ Len(sendq') <= QCap
    BY <1>2, <1>15, HeadTailProperties, LenProperties, NetAssumption
    DEF TypeOK, Execute, NetAssumption
  <2>2. t # NoConn => t \in Conn
    BY <1>2, <2>0, ListFacts DEF Target
  <2>3. UNCHANGED <<batch, netv, accv, known, hanv, dropped>>
    BY <1>15 DEF Execute
  <2>4. CASE UNCHANGED <<sock, loopv, ready, cbs, repv, userData>>
    BY <1>2, <2>1, <2>3, <2>4 DEF TypeOK, loopv, netv, curv, accv, hanv, seen, repv
  <2>5. CASE t \in Conn /\ (DoSend(t) \/ DoSetData(t))
    BY <1>2, <2>1, <2>3, <2>5 DEF TypeOK, DoSend, DoSetData, loopv, netv, curv, accv, hanv, repv
  <2>6. CASE t \in Conn /\ DoClose(t, x)
    <3>1. sock' \in [Conn -> Socket]
      BY <1>2, <2>6, SocketType DEF DoClose
    <3>2. anfd' \in [Fds -> [used : BOOLEAN, evs : Seq(1..Total), flag : BOOLEAN]]
      BY <1>2, <2>6, EmptySeq DEF TypeOK, DoClose
    <3>3. cbs' \in [Conn -> Nat]
      BY <1>2, <2>6 DEF TypeOK, DoClose
    <3>. QED BY <1>2, <2>1, <2>3, <2>6, <3>1, <3>2, <3>3 DEF TypeOK, Socket, DoClose, netv, curv, accv, hanv
  <2>. QED BY <1>15, <2>0, <2>2, <2>4, <2>5, <2>6 DEF Execute
<1>16. ASSUME NEW h \in Handlers, NEW c \in known, NEW p \in Programs, Begin(h, c, p) PROVE TypeOK'
  <2>1. c \in Conn /\ p \in Seq({"s", "c", "m"})
    BY <1>2, NetAssumption DEF TypeOK, NetAssumption
  <2>2. PICK cmds : cmds = [i \in 1..Len(p) |->
                             [op |-> p[i], conn |-> c, reply |-> p = <<"s", "c">>]]
    OBVIOUS
  <2>3. cmds \in Seq(Command)
    <3>1. \A i \in 1..Len(p) :
            [op |-> p[i], conn |-> c, reply |-> p = <<"s", "c">>] \in Command
      BY <2>1, LenProperties DEF Command
    <3>2. cmds \in [1..Len(p) -> Command] /\ Len(p) \in Nat
      BY <2>1, <2>2, <3>1, LenProperties
    <3>. QED BY <3>2, SeqDef
  <2>4. hcmds' \in [Handlers -> Seq(Command)]
    BY <1>2, <1>16, <2>2, <2>3 DEF TypeOK, Begin
  <2>5. begun' \in 0..Budget
    BY <1>2, <1>16, NetAssumption DEF TypeOK, Begin, NetAssumption
  <2>. QED BY <1>2, <1>16, <2>4, <2>5 DEF TypeOK, Begin, loopv, netv, curv, accv, seen, repv
<1>17. ASSUME NEW h \in Handlers, Push(h) PROVE TypeOK'
  <2>1. Head(hcmds[h]) \in Command /\ Tail(hcmds[h]) \in Seq(Command)
    BY <1>2, <1>17, HeadTailProperties DEF TypeOK, Push, Pushes
  <2>2. sendq' \in Seq(Command) /\ Len(sendq') <= QCap
    <3>1. CASE UNCHANGED sendq
      BY <1>2, <3>1 DEF TypeOK
    <3>2. CASE Accepts /\ sendq' = Append(sendq, Head(hcmds[h]))
      BY <1>2, <2>1, <3>2, AppendProperties, LenProperties, NetAssumption
      DEF TypeOK, Accepts, NetAssumption
    <3>. QED BY <1>17, <3>1, <3>2 DEF Push, Enqueue, Refuse
  <2>3. hcmds' \in [Handlers -> Seq(Command)] /\ hnote' \in [Handlers -> BOOLEAN]
    BY <1>2, <1>17, <2>1 DEF TypeOK, Push, Pushed
  <2>4. dropped' \subseteq Conn
    BY <1>2, <1>17, <2>1 DEF TypeOK, Push, Enqueue, Refuse, Command
  <2>. QED BY <1>2, <1>17, <2>2, <2>3, <2>4 DEF TypeOK, Push, loopv, netv, curv, accv, seen, repv
<1>18. ASSUME NEW h \in Handlers, Wake(h) PROVE TypeOK'
  BY <1>2, <1>18 DEF TypeOK, Wake, loopv, netv, curv, accv, seen, repv
<1>19. CASE UNCHANGED vars
  BY <1>2, <1>19 DEF TypeOK, vars, loopv, netv, curv, accv, hanv, seen, repv
<1>. QED BY <1>1, <1>3, <1>4, <1>5, <1>6, <1>7, <1>8, <1>9, <1>10, <1>11, <1>12, <1>13,
           <1>14, <1>15, <1>16, <1>17, <1>18, <1>19, <1>20
     DEF Next, NetStep, AcceptStep, HandlerStep

-----------------------------------------------------------------------------
(* The steps, by what they do to the connections.                          *)

\* No connection comes, goes or is registered; sockets at most get data.
Calm == /\ ListSame /\ UNCHANGED <<anfd, epoll, apc, anew, cbs>>
        /\ \A c \in Conn : sock'[c].st = sock[c].st /\ sock'[c].fd = sock[c].fd

\* read_pipe_cb closes t.
Closing(t) ==
  /\ t \in Conn /\ Listed(t) /\ t = Target(Head(sendq))
  /\ npc = "drain" /\ sendq # <<>> /\ Head(sendq).op = "c" /\ sendq' = Tail(sendq)
  /\ DoClose(t, Head(sendq))
  /\ UNCHANGED <<batch, netv, accv, known, hanv, dropped>>

\* read_data ends for a connection that was taken off the list meanwhile, and
\* with it goes the last reference to its Connector.
Leaving ==
  /\ cur \in Conn /\ ~Listed(cur) /\ npc # "drain"
  /\ ListSame /\ UNCHANGED <<anfd, epoll, apc, anew, cbs>>
  /\ \A d \in Conn : d # cur => sock'[d] = sock[d]
  /\ sock'[cur].st = "closed" /\ sock'[cur].fd = sock[cur].fd

\* The end of read_data is calm for a connection that is in the list.
LEMMA LetGoCalm ==
  ASSUME sock \in [Conn -> Socket], ListSame, UNCHANGED <<anfd, epoll, apc, anew, cbs>>,
         cur \in Conn, npc # "drain", NEW d \in {"none", "unread", "read"},
         sock' = [sock EXCEPT ![cur].data = d, ![cur].st = LetGo(cur)]
  PROVE  Calm \/ Leaving
<1>1. sock[cur] \in Socket
  OBVIOUS
<1>2. /\ sock'[cur].st = LetGo(cur) /\ sock'[cur].fd = sock[cur].fd
      /\ \A c \in Conn : c # cur => sock'[c] = sock[c]
  BY <1>1 DEF Socket
<1>. QED BY <1>2 DEF Calm, Leaving, LetGo, Listed

LEMMA Steps ==
  ASSUME TypeInv, [Next]_vars
  PROVE  \/ Calm
         \/ \E c \in Conn : Accept(c) \/ Reject(c)
         \/ AddToList \/ Watch \/ Undo \/ Leaving
         \/ \E t \in Conn : Closing(t)
<1>. DEFINE Same == ListSame /\ UNCHANGED <<anfd, epoll, apc, anew, cbs>>
<1>1. TypeOK /\ UseInv /\ sock \in [Conn -> Socket]
  BY DEF TypeInv, TypeOK, Socket
<1>2. ASSUME Same, UNCHANGED sock PROVE Calm
  BY <1>2 DEF Calm
<1>3. ASSUME Same, NEW c \in Conn,
             sock' \in {sock, [sock EXCEPT ![c].data = "unread"],
                        [sock EXCEPT ![c].data = "read"], [sock EXCEPT ![c].fin = TRUE]}
      PROVE  Calm
  BY <1>1, <1>3 DEF Calm, Socket
<1>4. CASE \/ EpollWait \/ OnNotify \/ ReadNothing \/ ReadGet \/ DrainEnd
           \/ \E f \in batch : OnReadable(f)
  BY <1>2, <1>4 DEF EpollWait, OnNotify, ReadNothing, ReadGet, DrainEnd, OnReadable,
                    ListSame, lvars, loopv, accv, seen
<1>5. CASE OnTimer
  BY <1>2, <1>5 DEF OnTimer, L!CheckTimeout, ListSame, lvars, loopv, accv, seen
<1>6. CASE ReadEnd
  <2>1. cur \in Conn /\ sock' \in {sock, [sock EXCEPT ![cur].data = "read"]}
    BY <1>1, <1>6 DEF ReadEnd, UseInv
  <2>2. Same
    BY <1>6 DEF ReadEnd, ListSame, lvars, loopv, accv, seen
  <2>. QED BY <1>3, <2>1, <2>2
<1>12. CASE ReadData
  <2>1. cur \in Conn /\ sock[cur] \in Socket /\ npc = "got"
    BY <1>1, <1>12 DEF ReadData, UseInv
  <2>2. PICK d : d = IF sock[cur].data = "unread" THEN "read" ELSE sock[cur].data
    OBVIOUS
  <2>3. d \in {"none", "unread", "read"}
    BY <2>1, <2>2 DEF Socket
  <2>4. sock' = [sock EXCEPT ![cur].data = d, ![cur].st = LetGo(cur)]
    BY <1>12, <2>2 DEF ReadData
  <2>5. Same
    BY <1>12, RefreshEffect DEF ReadData, ListSame, loopv, accv, seen
  <2>. QED BY <1>1, <2>1, <2>3, <2>4, <2>5, LetGoCalm
<1>13. ASSUME NEW x \in own, PushOwn(x) PROVE Calm \/ Leaving
  <2>1. Same /\ npc = "push"
    BY <1>13 DEF PushOwn, ListSame, lvars, loopv, accv, seen
  <2>2. CASE cur # NoConn /\ PushedAll
    <3>1. cur \in Conn /\ sock[cur] \in Socket
      BY <1>1, <2>2 DEF TypeOK
    <3>2. sock[cur].data \in {"none", "unread", "read"}
      BY <3>1 DEF Socket
    <3>3. sock' = [sock EXCEPT ![cur].data = sock[cur].data, ![cur].st = LetGo(cur)]
      BY <1>1, <2>2, <3>1 DEF PushedAll, Socket
    <3>. QED BY <1>1, <2>1, <3>1, <3>2, <3>3, LetGoCalm
  <2>3. CASE UNCHANGED sock
    BY <1>2, <2>1, <2>3
  <2>. QED BY <1>13, <2>2, <2>3 DEF PushOwn, PushedAll
<1>7. CASE Execute
  <2>0. PICK x, t : x = Head(sendq) /\ t = Target(x)
    OBVIOUS
  <2>1. CASE t = NoConn \/ DoSend(t) \/ DoSetData(t)
    <3>1. UNCHANGED <<lvars, sock, loopv, cbs>>
      <4>1. CASE DoSend(t) \/ DoSetData(t)
        BY <4>1 DEF DoSend, DoSetData
      <4>2. CASE t = NoConn
        BY <1>7, <2>0, <4>2 DEF Execute
      <4>. QED BY <2>1, <4>1, <4>2
    <3>2. Same
      BY <1>7, <3>1 DEF Execute, ListSame, lvars, loopv, accv
    <3>. QED BY <1>2, <3>1, <3>2
  <2>2. CASE t # NoConn /\ x.op = "c" /\ DoClose(t, x)
    <3>1. t \in Conn /\ Listed(t)
      BY <1>1, <2>0, <2>2, ListFacts DEF Target
    <3>. QED BY <1>7, <2>0, <2>2, <3>1 DEF Execute, Closing
  <2>. QED BY <1>7, <2>0, <2>1, <2>2 DEF Execute
<1>8. ASSUME NEW h \in Handlers, HandlerStep(h) \/ \E c, p : Begin(h, c, p) PROVE Calm
  BY <1>2, <1>8 DEF HandlerStep, Push, Wake, Begin, ListSame, lvars, loopv, accv, seen
<1>9. ASSUME NEW c \in Conn, PeerSends(c) \/ PeerCloses(c) PROVE Calm
  BY <1>3, <1>9 DEF PeerSends, PeerCloses, ListSame, lvars, loopv, accv, seen
<1>10. CASE Clock
  BY <1>2, <1>10 DEF Clock, L!Clock, ListSame, lvars, loopv, accv, seen
<1>11. CASE UNCHANGED vars
  BY <1>2, <1>11 DEF vars, ListSame, lvars, loopv, accv, seen
<1>. QED BY <1>4, <1>5, <1>6, <1>7, <1>8, <1>9, <1>10, <1>11, <1>12, <1>13
     DEF Next, NetStep, AcceptStep

\* What a calm step leaves as it was.
LEMMA CalmSame ==
  ASSUME Calm
  PROVE  \A c \in Conn : /\ Listed(c)' <=> Listed(c)
                         /\ Settled(c)' <=> Settled(c)
                         /\ Fd(c)' = Fd(c) /\ (IsOpen(c)' <=> IsOpen(c))
BY SameEffect DEF Calm, ListSame, Settled, Listed, Fd, IsOpen

\* A new descriptor and a closed one.
LEMMA SocketEffect ==
  ASSUME sock \in [Conn -> Socket], NEW c \in Conn, NEW f,
         \/ sock' = [sock EXCEPT ![c].st = "open", ![c].fd = f]
         \/ sock' = [sock EXCEPT ![c].st = "closed"]
  PROVE  /\ \A d \in Conn : d # c => sock'[d] = sock[d]
         /\ sock'[c].data = sock[c].data /\ sock'[c].fin = sock[c].fin
         /\ sock' = [sock EXCEPT ![c].st = "open", ![c].fd = f]
              => sock'[c].st = "open" /\ sock'[c].fd = f
         /\ sock' = [sock EXCEPT ![c].st = "closed"]
              => sock'[c].st = "closed" /\ sock'[c].fd = sock[c].fd
BY DEF Socket

\* A connection that was accepted is never new again.
LEMMA NeverNew ==
  ASSUME TypeInv, [Next]_vars, NEW c \in Conn, sock[c].st # "new"
  PROVE  sock'[c].st # "new"
<1>1. TypeOK /\ UseInv /\ sock \in [Conn -> Socket]
  BY DEF TypeInv, TypeOK, Socket
<1>2. ASSUME NEW d \in Conn, Accept(d) \/ Reject(d) PROVE sock'[c].st # "new"
  <2>1. PICK f \in Fds : sock' = [sock EXCEPT ![d].st = "open", ![d].fd = f]
    BY <1>2 DEF Accept, Reject, Accepted, FreeFds
  <2>. QED BY <1>1, <2>1, SocketEffect
<1>3. CASE AddToList \/ Watch
  BY <1>3 DEF AddToList, Watch
<1>4. CASE Undo
  <2>1. anew \in Conn /\ sock' \in {sock, [sock EXCEPT ![anew].st = "closed"]}
    BY <1>1, <1>4 DEF Undo, UseInv
  <2>. QED BY <1>1, <2>1, SocketEffect
<1>5. ASSUME NEW t \in Conn, Closing(t) PROVE sock'[c].st # "new"
  BY <1>1, <1>5, SocketEffect DEF Closing, DoClose
<1>. QED BY <1>2, <1>3, <1>4, <1>5, Steps DEF Calm, Leaving

\* The rest of what TypeInv says of the next state.
LEMMA TypeInvNext == TypeInv /\ [Next]_vars => TypeInv'
<1>1. SUFFICES ASSUME TypeInv, [Next]_vars PROVE TypeInv'
  OBVIOUS
<1>2. TypeOK' /\ UseInv' /\ LP!TimeListExact'
  BY <1>1, TypeNext, ListNext DEF TypeInv
<1>3. TypeOK /\ UseInv /\ sock \in [Conn -> Socket]
  BY <1>1 DEF TypeInv, TypeOK, Socket
<1>. DEFINE Rest == /\ apc # "idle" => id[anew] \in 1..Total /\ sock[anew].st # "new"
                    /\ \A c \in Conn : /\ sock[c].st # "new" => Fd(c) \in Fds
                                       /\ Listed(c) => sock[c].st # "new"
                    /\ \A f \in Fds : anfd[f].used => anfd[f].evs # <<>>
<1>4. Rest'
  <2>1. CASE Calm
    <3>1. /\ \A c \in Conn : Listed(c)' <=> Listed(c)
          /\ \A c \in Conn : sock'[c].st = sock[c].st /\ sock'[c].fd = sock[c].fd
          /\ UNCHANGED <<id, apc, anew, anfd>> /\ (apc # "idle" => anew \in Conn)
      BY <1>3, <2>1, CalmSame DEF Calm, ListSame, UseInv
    <3>. QED BY <1>1, <3>1 DEF TypeInv, Fd
  <2>2. ASSUME NEW c \in Conn, Accept(c) \/ Reject(c) PROVE Rest'
    <3>1. PICK f \in Fds : sock' = [sock EXCEPT ![c].st = "open", ![c].fd = f]
      BY <2>2 DEF Accept, Reject, Accepted, FreeFds
    <3>2. /\ \A d \in Conn : d # c => sock'[d] = sock[d]
          /\ sock'[c].st = "open" /\ sock'[c].fd = f
      BY <1>3, <3>1, SocketEffect
    <3>3. anfd' = anfd
      BY <2>2 DEF Accept, Reject, loopv
    <3>4. CASE Accept(c)
      <4>1. /\ id' = [id EXCEPT ![c] = Head(free)] /\ Head(free) \in 1..Total /\ anew' = c
            /\ \A d \in Conn : Listed(d)' <=> Listed(d)
        BY <1>3, <3>4, GetEffect DEF Accept
      <4>2. id'[c] \in 1..Total
        BY <1>3, <4>1, ListFacts
      <4>. QED BY <1>1, <3>2, <3>3, <4>1, <4>2 DEF TypeInv, Fd
    <3>5. CASE Reject(c)
      <4>1. /\ apc' = apc /\ anew' = anew /\ id' = id
            /\ \A d \in Conn : Listed(d)' <=> Listed(d)
        BY <3>5, SameEffect DEF Reject, accv, lvars, ListSame
      <4>. QED BY <1>1, <1>3, <3>2, <3>3, <4>1 DEF TypeInv, Fd, UseInv
    <3>. QED BY <2>2, <3>4, <3>5
  <2>3. CASE AddToList
    <3>1. /\ id' = id /\ UNCHANGED <<sock, anfd, anew>> /\ apc # "idle"
          /\ \A d \in Conn : Listed(d)' <=> Listed(d) \/ d = anew
      BY <1>3, <2>3, AddEffect DEF AddToList, loopv, UseInv
    <3>. QED BY <1>1, <3>1 DEF TypeInv, Fd
  <2>4. CASE Watch
    <3>1. /\ id' = id /\ UNCHANGED <<sock, anew>> /\ apc = "watch"
          /\ \A d \in Conn : Listed(d)' <=> Listed(d)
      BY <2>4, SameEffect DEF Watch, lvars, ListSame
    <3>2. \A f \in Fds : anfd'[f].used => anfd'[f].evs # <<>>
      <4>1. PICK g : g = Fd(anew)
        OBVIOUS
      <4>2. PICK e : e = WithEvent(g, id[anew])
        OBVIOUS
      <4>3. anfd \in [Fds -> [used : BOOLEAN, evs : Seq(1..Total), flag : BOOLEAN]]
        BY <1>3 DEF TypeOK
      <4>4. g \in Fds => e # <<>>
        <5>1. id[anew] \in 1..Total
          BY <1>1, <3>1 DEF TypeInv
        <5>2. g \in Fds => Append(anfd[g].evs, id[anew]) # <<>>
          BY <4>3, <5>1, AppendProperties
        <5>. QED BY <1>1, <4>2, <5>2 DEF WithEvent, TypeInv
      <4>5. \/ anfd' = [anfd EXCEPT ![g] = [used |-> TRUE, evs |-> e, flag |-> TRUE]]
            \/ anfd' = [anfd EXCEPT ![g].used = TRUE, ![g].evs = e]
        BY <2>4, <4>1, <4>2 DEF Watch
      <4>. QED BY <1>1, <4>3, <4>4, <4>5 DEF TypeInv
    <3>. QED BY <1>1, <3>1, <3>2 DEF TypeInv, Fd
  <2>5. CASE Undo
    <3>1. /\ anew \in Conn /\ sock' \in {sock, [sock EXCEPT ![anew].st = "closed"]}
          /\ UNCHANGED anfd /\ apc' = "idle" /\ apc = "undo"
          /\ \A d \in Conn : Listed(d)' => Listed(d)
      BY <1>3, <2>5, DelEffect DEF Undo, UseInv, loopv
    <3>2. /\ \A d \in Conn : d # anew => sock'[d] = sock[d]
          /\ sock'[anew].fd = sock[anew].fd /\ sock'[anew].st \in {sock[anew].st, "closed"}
      BY <1>3, <3>1, SocketEffect
    <3>. QED BY <1>1, <3>1, <3>2 DEF TypeInv, Fd
  <2>6. ASSUME NEW t \in Conn, Closing(t) PROVE Rest'
    <3>0. id[Head(sendq).conn] \in 1..Total
      BY <1>3, <2>6, FoundId, NetAssumption DEF Closing, Target, NetAssumption
    <3>1. /\ sock' = [sock EXCEPT ![t].st = "closed"] /\ id' = id
          /\ anfd' = [anfd EXCEPT ![Fd(t)].used = FALSE, ![Fd(t)].evs = <<>>]
          /\ UNCHANGED <<apc, anew>> /\ Listed(t) /\ (apc # "idle" => anew \in Conn)
          /\ \A d \in Conn : Listed(d)' => Listed(d)
      BY <1>3, <2>6, <3>0, DelEffect DEF Closing, DoClose, accv, UseInv
    <3>2. /\ \A d \in Conn : d # t => sock'[d] = sock[d]
          /\ sock'[t].fd = sock[t].fd /\ sock'[t].st = "closed"
      BY <1>3, <3>1, SocketEffect
    <3>3. Fd(t) \in Fds
      BY <1>1, <2>6, <3>1 DEF TypeInv
    <3>4. \A f \in Fds : anfd'[f].used => anfd'[f].evs # <<>>
      <4>1. anfd \in [Fds -> [used : BOOLEAN, evs : Seq(1..Total), flag : BOOLEAN]]
        BY <1>3 DEF TypeOK
      <4>. QED BY <1>1, <2>6, <3>1, <3>3, <4>1 DEF TypeInv
    <3>. QED BY <1>1, <2>6, <3>1, <3>2, <3>4 DEF TypeInv, Fd
  <2>7. CASE Leaving
    <3>1. /\ UNCHANGED <<id, apc, anew, anfd>> /\ (apc # "idle" => anew \in Conn)
          /\ \A d \in Conn : Listed(d)' <=> Listed(d)
      BY <1>3, <2>7, SameEffect DEF Leaving, ListSame, UseInv
    <3>2. \A d \in Conn : /\ sock'[d].fd = sock[d].fd
                          /\ sock'[d].st # "new" <=> sock[d].st # "new"
      <4>1. cur \in Conn /\ sock[cur].st # "new"
        BY <1>1, <2>7, NetAssumption DEF Leaving, TypeInv, NetAssumption
      <4>. QED BY <2>7, <4>1 DEF Leaving
    <3>. QED BY <1>1, <3>1, <3>2 DEF TypeInv, Fd
  <2>. QED BY <1>1, <2>1, <2>2, <2>3, <2>4, <2>5, <2>6, <2>7, Steps
<1>5. /\ npc' = "read" => todo' # <<>>
      /\ npc' \in {"wait", "read", "drain"} => cur' = NoConn
      /\ cur' # NoConn => cur' = cur \/ Listed(cur')
  <2>. DEFINE Turn == /\ npc' = "read" => todo' # <<>>
                      /\ npc' \in {"wait", "read", "drain"} => cur' = NoConn
                      /\ cur' # NoConn => cur' = cur \/ Listed(cur')
  <2>1. ASSUME UNCHANGED <<npc, todo, cur>> PROVE Turn
    BY <1>1, <2>1 DEF TypeInv
  <2>2. ASSUME NEW f, OnReadable(f) PROVE Turn
    BY <1>1, <2>2 DEF OnReadable, Takes, TypeInv, curv
  <2>3. ASSUME EpollWait \/ OnNotify \/ OnTimer \/ ReadNothing \/ DrainEnd \/ Execute PROVE Turn
    BY <1>1, <2>3 DEF EpollWait, OnNotify, OnTimer, ReadNothing, DrainEnd, Execute, Resume,
                      Takes, netv, curv, TypeInv
  <2>7. ASSUME ReadData \/ ReadEnd PROVE Turn
    BY <1>1, <2>7 DEF ReadData, ReadEnd, Resume, curv, TypeInv
  <2>9. ASSUME ReadGet PROVE Turn
    <3>1. PICK c : c = L!Lookup(Head(todo))
      OBVIOUS
    <3>. QED BY <1>3, <2>9, <3>1, ListFacts DEF ReadGet
  <2>8. ASSUME NEW x \in own, PushOwn(x) PROVE Turn
    BY <1>1, <2>8 DEF PushOwn, PushedAll, Resume, TypeInv
  <2>4. ASSUME AcceptStep \/ \E c \in Conn : Accept(c) \/ Reject(c) \/ PeerSends(c) \/ PeerCloses(c)
        PROVE  Turn
    BY <2>1, <2>4 DEF AcceptStep, AddToList, Watch, Undo, Accept, Reject, PeerSends, PeerCloses,
                      netv, curv
  <2>5. ASSUME NEW h, HandlerStep(h) \/ \E c, p : Begin(h, c, p) PROVE Turn
    BY <2>1, <2>5 DEF HandlerStep, Push, Wake, Begin, netv, curv
  <2>6. ASSUME Clock \/ UNCHANGED vars PROVE Turn
    BY <2>1, <2>6 DEF Clock, vars, netv, curv
  <2>. QED BY <1>1, <2>2, <2>3, <2>4, <2>5, <2>6, <2>7, <2>8, <2>9 DEF Next, NetStep
<1>6. cur' # NoConn => sock'[cur'].st # "new"
  <2>1. cur' # NoConn => cur' \in Conn /\ sock[cur'].st # "new"
    BY <1>1, <1>2, <1>5 DEF TypeOK, TypeInv
  <2>. QED BY <1>1, <2>1, NeverNew
<1>. QED BY <1>2, <1>4, <1>5, <1>6 DEF TypeInv

LEMMA TypeAlways == Spec => []TypeInv
BY TypeInvInit, TypeInvNext, PTL DEF Spec

\* Every variable of the network thread keeps its type, with registrations
\* that fail, any programs of the handlers and any peers.
THEOREM NetTypes == Spec => []TypeOK
<1>1. TypeInv => TypeOK
  BY DEF TypeInv
<1>. QED BY <1>1, TypeAlways, PTL

-----------------------------------------------------------------------------
(* The invariant of the loop.                                              *)

\* No two connections of a run have the same ip and port.
DistinctPeers == \A c, d \in Conn : PeerOf[c] = PeerOf[d] => c = d

\* What the network thread may be asked about: what add_connector is done
\* with, listed still or closed again.
Past(c) == Settled(c) \/ sock[c].st = "closed"

\* The accepting thread between getUniqId and add_event.
AccInv ==
  /\ apc # "undo"
  /\ apc = "list" => anew \in handed
  /\ apc = "watch" => Listed(anew)
  /\ apc # "idle" => IsOpen(anew)
  /\ \A c \in handed : apc = "list" /\ c = anew

\* Listed connections are open, and open descriptors differ.
SockInv ==
  /\ \A c \in Conn : Listed(c) => IsOpen(c)
  /\ \A c, d \in Conn : IsOpen(c) /\ IsOpen(d) /\ Fd(c) = Fd(d) => c = d

\* RegistrationSound, with the settled connections in both directions.
RegInv ==
  /\ \A c \in Conn : Settled(c) => /\ Fd(c) \in epoll
                                   /\ anfd[Fd(c)].used /\ anfd[Fd(c)].flag
                                   /\ anfd[Fd(c)].evs = <<id[c]>>
  /\ \A f \in Fds : anfd[f].used => \E c \in Conn : Settled(c) /\ Fd(c) = f

\* Nobody knows a connection before add_connector is done with it.
PastInv ==
  /\ \A c \in known : Past(c)
  /\ \A i \in 1..Len(sendq) : Past(sendq[i].conn)
  /\ \A x \in own : Past(x.conn)
  /\ \A h \in Handlers : \A i \in 1..Len(hcmds[h]) : Past(hcmds[h][i].conn)

\* The callback of a descriptor looks up the ids of settled connections, and
\* only the thread with index 0 has a timer.
TodoInv ==
  /\ npc \in {"wait", "drain"} => todo = <<>>
  /\ \A i \in 1..Len(todo) : \E c \in Conn : Settled(c) /\ todo[i] = id[c]
  /\ Timer \in ready \cup batch => Index = 0

\* What read_data holds is in the list, and add_connector is done with it.
CurInv == cur # NoConn => Settled(cur)

Core == TypeInv /\ AccInv /\ SockInv /\ RegInv /\ AnnouncedOnce /\ CurInv

\* The facts of TypeInv that the steps below use.
LEMMA CoreTypes ==
  ASSUME Core
  PROVE  /\ sock \in [Conn -> Socket] /\ UseInv /\ TypeOK
         /\ anfd \in [Fds -> [used : BOOLEAN, evs : Seq(1..Total), flag : BOOLEAN]]
         /\ apc # "idle" => anew \in Conn
         /\ \A c \in Conn : IsOpen(c) => Fd(c) \in Fds
         /\ handed \subseteq Conn
BY ListFacts DEF Core, TypeInv, TypeOK, Socket, UseInv, IsOpen

\* A command leads to its own connection or nowhere.
LEMMA TargetOwn ==
  ASSUME TypeInv, DistinctPeers, sendq # <<>>, NEW t, t = Target(Head(sendq)), t # NoConn
  PROVE  t \in Conn /\ Listed(t) /\ t = Head(sendq).conn
<1>1. Head(sendq) \in Command
  BY HeadTailProperties DEF TypeInv, TypeOK
<1>2. t = L!Lookup(id[Head(sendq).conn]) /\ PeerOf[t] = PeerOf[Head(sendq).conn]
  BY DEF Target
<1>3. t \in Conn /\ Listed(t)
  BY <1>2, ListFacts DEF TypeInv
<1>. QED BY <1>1, <1>2, <1>3 DEF DistinctPeers, Command

-----------------------------------------------------------------------------
(* What the steps that are not calm do.                                    *)

LEMMA AcceptEffect ==
  ASSUME Core, NEW c \in Conn, Accept(c) \/ Reject(c)
  PROVE  /\ \A d \in Conn : d # c => sock'[d] = sock[d]
         /\ sock[c].st = "new" /\ IsOpen(c)' /\ Fd(c)' \in FreeFds
         /\ sock'[c].data = sock[c].data
         /\ \A d \in Conn : Listed(d)' <=> Listed(d)
         /\ \A d \in Conn : Settled(d)' <=> Settled(d)
         /\ \A d \in Conn : Listed(d) => id'[d] = id[d]
         /\ \/ apc' = "list" /\ anew' = c /\ handed' = handed \cup {c}
            \/ UNCHANGED <<apc, anew, handed>>
         /\ apc = "idle" /\ UNCHANGED <<anfd, epoll, cbs, ready, batch, todo, npc>>
<1>1. PICK f \in FreeFds : sock' = [sock EXCEPT ![c].st = "open", ![c].fd = f]
  BY DEF Accept, Reject, Accepted
<1>2. /\ \A d \in Conn : d # c => sock'[d] = sock[d]
      /\ sock'[c].st = "open" /\ sock'[c].fd = f /\ sock'[c].data = sock[c].data
  BY <1>1, CoreTypes, SocketEffect
<1>3. sock[c].st = "new" /\ apc = "idle"
  BY DEF Accept, Reject, Accepted, NextConn
<1>4. ~Listed(c)
  BY <1>3 DEF Core, SockInv, IsOpen
<1>5. UNCHANGED <<anfd, epoll, cbs, ready, batch, todo, npc>>
  BY DEF Accept, Reject, loopv, seen, netv
<1>6. CASE Accept(c)
  <2>1. /\ id' = [id EXCEPT ![c] = Head(free)]
        /\ handed' = handed \cup {c}
        /\ \A d \in Conn : Listed(d)' <=> Listed(d)
    BY <1>6, CoreTypes, GetEffect DEF Accept
  <2>2. apc' = "list" /\ anew' = c
    BY <1>6 DEF Accept
  <2>3. \A d \in Conn : Listed(d) => id'[d] = id[d]
    BY <1>4, <2>1, CoreTypes, ListFacts
  <2>4. \A d \in Conn : Settled(d)' <=> Settled(d)
    BY <1>3, <1>4, <2>1, <2>2 DEF Settled, Listed
  <2>. QED BY <1>2, <1>3, <1>5, <2>1, <2>2, <2>3, <2>4 DEF IsOpen, Fd
<1>7. CASE Reject(c)
  <2>1. UNCHANGED <<apc, anew, handed, id>> /\ ListSame
    BY <1>7 DEF Reject, accv, lvars, ListSame
  <2>2. \A d \in Conn : Listed(d)' <=> Listed(d)
    BY <2>1, SameEffect
  <2>3. \A d \in Conn : Settled(d)' <=> Settled(d)
    BY <2>1, <2>2 DEF Settled, Listed
  <2>. QED BY <1>2, <1>3, <1>5, <2>1, <2>2, <2>3 DEF IsOpen, Fd
<1>. QED BY <1>6, <1>7

LEMMA AddToListEffect ==
  ASSUME Core, AddToList
  PROVE  /\ \A d \in Conn : Listed(d)' <=> Listed(d) \/ d = anew
         /\ \A d \in Conn : Settled(d)' <=> Settled(d)
         /\ apc = "list" /\ apc' = "watch" /\ anew \in Conn /\ handed' = handed \ {anew}
         /\ UNCHANGED <<sock, anew, id, anfd, epoll, cbs, ready, batch, todo, npc>>
<1>1. apc = "list" /\ anew \in Conn
  BY CoreTypes DEF AddToList
<1>2. /\ id' = id /\ handed' = handed \ {anew} /\ anew \in handed
      /\ \A d \in Conn : Listed(d)' <=> Listed(d) \/ d = anew
  BY <1>1, CoreTypes, AddEffect DEF AddToList, UseInv
<1>3. apc' = "watch" /\ UNCHANGED <<sock, anew, anfd, epoll, cbs, ready, batch, todo, npc>>
  BY DEF AddToList, loopv, seen, netv
<1>4. ~Listed(anew)
  BY <1>2, CoreTypes, ListFacts
<1>5. \A d \in Conn : Settled(d)' <=> Settled(d)
  BY <1>1, <1>2, <1>3, <1>4 DEF Settled, Listed
<1>. QED BY <1>1, <1>2, <1>3, <1>5

\* The descriptor of a new connection is not in use in anfds.
LEMMA WatchEffect ==
  ASSUME Core, AddMayFail = FALSE, Watch
  PROVE  /\ anew \in Conn /\ Listed(anew) /\ IsOpen(anew) /\ Fd(anew) \in Fds
         /\ ~anfd[Fd(anew)].used
         /\ \A d \in Conn : Listed(d)' <=> Listed(d)
         /\ \A d \in Conn : Settled(d)' <=> Settled(d) \/ d = anew
         /\ apc' = "idle" /\ apc = "watch" /\ npc = "wait"
         /\ anfd' = [anfd EXCEPT ![Fd(anew)] =
                       [used |-> TRUE, evs |-> <<id[anew]>>, flag |-> TRUE]]
         /\ epoll' = epoll \cup {Fd(anew)}
         /\ ready' = IF sock[anew].data = "unread" \/ sock[anew].fin
                     THEN ready \cup {Fd(anew)} ELSE ready
         /\ UNCHANGED <<sock, anew, id, handed, cbs, batch, todo, npc>>
<1>1. apc = "watch" /\ npc = "wait" /\ anew \in Conn /\ IsOpen(anew) /\ Listed(anew)
  BY CoreTypes DEF Watch, Core, AccInv
<1>2. Fd(anew) \in Fds
  BY <1>1, CoreTypes
<1>3. ASSUME anfd[Fd(anew)].used PROVE FALSE
  <2>1. PICK d \in Conn : Settled(d) /\ Fd(d) = Fd(anew)
    BY <1>2, <1>3 DEF Core, RegInv
  <2>2. d # anew /\ IsOpen(d)
    BY <1>1, <2>1 DEF Settled, Listed, Core, SockInv
  <2>. QED BY <1>1, <2>1, <2>2 DEF Core, SockInv
<1>4. NeedsKernel(Fd(anew)) /\ WithEvent(Fd(anew), id[anew]) = <<id[anew]>>
  BY <1>3 DEF NeedsKernel, WithEvent
<1>5. /\ anfd' = [anfd EXCEPT ![Fd(anew)] =
                    [used |-> TRUE, evs |-> <<id[anew]>>, flag |-> TRUE]]
      /\ epoll' = epoll \cup {Fd(anew)} /\ apc' = "idle"
      /\ ready' = IF sock[anew].data = "unread" \/ sock[anew].fin
                  THEN ready \cup {Fd(anew)} ELSE ready
  BY <1>1, <1>4 DEF Watch
<1>6. UNCHANGED <<sock, anew, id, handed, cbs, batch, todo, npc>> /\ ListSame
  BY DEF Watch, lvars, ListSame, seen, netv
<1>7. \A d \in Conn : Listed(d)' <=> Listed(d)
  BY <1>6, SameEffect
<1>8. \A d \in Conn : Settled(d)' <=> Settled(d) \/ d = anew
  BY <1>1, <1>5, <1>6, <1>7 DEF Settled, Listed
<1>. QED BY <1>1, <1>2, <1>3, <1>5, <1>6, <1>7, <1>8

\* Nothing fails, so nothing has to be undone, and read_data keeps what it has.
LEMMA NeverUndone == ASSUME Core PROVE ~Undo /\ ~Leaving
BY NetAssumption DEF Core, AccInv, Undo, CurInv, Leaving, Settled, Listed, NetAssumption

LEMMA CloseEffect ==
  ASSUME Core, PastInv, DistinctPeers, NEW t \in Conn, Closing(t)
  PROVE  /\ t = Head(sendq).conn /\ Listed(t) /\ Settled(t) /\ IsOpen(t) /\ Fd(t) \in Fds
         /\ \A d \in Conn : Listed(d)' <=> Listed(d) /\ d # t
         /\ \A d \in Conn : Settled(d)' <=> Settled(d) /\ d # t
         /\ \A d \in Conn : d # t => sock'[d] = sock[d]
         /\ sock'[t].st = "closed"
         /\ anfd' = [anfd EXCEPT ![Fd(t)].used = FALSE, ![Fd(t)].evs = <<>>]
         /\ epoll' = epoll \ {Fd(t)} /\ ready' = ready \ {Fd(t)}
         /\ cbs' = [cbs EXCEPT ![t] = @ + 1]
         /\ UNCHANGED <<apc, anew, handed, id, batch, todo, npc>>
         /\ npc = "drain"
<1>1. t = Head(sendq).conn /\ Listed(t) /\ npc = "drain" /\ sendq # <<>>
  BY TargetOwn, NetAssumption DEF Closing, Core, NetAssumption
<1>2. IsOpen(t) /\ Fd(t) \in Fds
  BY <1>1, CoreTypes DEF Core, SockInv
<1>3. Past(t)
  <2>1. sendq \in Seq(Command)
    BY CoreTypes DEF TypeOK
  <2>2. 1 \in 1..Len(sendq) /\ Head(sendq) = sendq[1]
    BY <1>1, <2>1, EmptySeq
  <2>. QED BY <1>1, <2>2 DEF PastInv
<1>4. Settled(t)
  BY <1>2, <1>3 DEF Past, IsOpen
<1>5. /\ sock' = [sock EXCEPT ![t].st = "closed"]
      /\ anfd' = [anfd EXCEPT ![Fd(t)].used = FALSE, ![Fd(t)].evs = <<>>]
      /\ epoll' = epoll \ {Fd(t)} /\ ready' = ready \ {Fd(t)}
      /\ cbs' = [cbs EXCEPT ![t] = @ + 1]
      /\ UNCHANGED <<apc, anew, batch, todo, npc>> /\ L!Del(id[t])
  BY <1>1 DEF Closing, DoClose, accv, netv
<1>6. /\ id' = id /\ handed' = handed
      /\ \A d \in Conn : Listed(d)' <=> Listed(d) /\ d # t
  BY <1>1, <1>5, CoreTypes, ListFacts, DelEffect
<1>7. \A d \in Conn : Settled(d)' <=> Settled(d) /\ d # t
  BY <1>5, <1>6 DEF Settled, Listed
<1>8. (\A d \in Conn : d # t => sock'[d] = sock[d]) /\ sock'[t].st = "closed"
  BY <1>5, CoreTypes, SocketEffect
<1>. QED BY <1>1, <1>2, <1>4, <1>5, <1>6, <1>7, <1>8

-----------------------------------------------------------------------------
(* The invariant is kept.                                                  *)

\* A step in terms of the lemmas above.
LEMMA CoreSteps ==
  ASSUME Core, AddMayFail = FALSE, [Next]_vars
  PROVE  \/ Calm
         \/ \E c \in Conn : Accept(c) \/ Reject(c)
         \/ AddToList \/ Watch
         \/ \E t \in Conn : Closing(t)
BY Steps, NeverUndone DEF Core

LEMMA AccNext ==
  ASSUME Core, PastInv, AddMayFail = FALSE, DistinctPeers, [Next]_vars
  PROVE  AccInv'
<1>1. CASE Calm
  <2>1. UNCHANGED <<apc, anew, handed>> /\ (apc # "idle" => anew \in Conn)
    BY <1>1, CoreTypes DEF Calm, ListSame
  <2>. QED BY <1>1, <2>1, CalmSame DEF Core, AccInv
<1>2. ASSUME NEW c \in Conn, Accept(c) \/ Reject(c) PROVE AccInv'
  BY <1>2, AcceptEffect, CoreTypes DEF Core, AccInv
<1>3. CASE AddToList
  BY <1>3, AddToListEffect DEF Core, AccInv, IsOpen
<1>4. CASE Watch
  BY <1>4, WatchEffect DEF Core, AccInv
<1>5. ASSUME NEW t \in Conn, Closing(t) PROVE AccInv'
  <2>1. /\ Settled(t) /\ UNCHANGED <<apc, anew, handed>>
        /\ \A d \in Conn : Listed(d)' <=> Listed(d) /\ d # t
        /\ \A d \in Conn : d # t => (IsOpen(d)' <=> IsOpen(d))
    BY <1>5, CloseEffect DEF IsOpen
  <2>2. apc # "idle" => anew \in Conn /\ anew # t
    BY <2>1, CoreTypes DEF Settled
  <2>. QED BY <2>1, <2>2 DEF Core, AccInv
<1>. QED BY <1>1, <1>2, <1>3, <1>4, <1>5, CoreSteps

LEMMA SockNext ==
  ASSUME Core, PastInv, AddMayFail = FALSE, DistinctPeers, [Next]_vars
  PROVE  SockInv'
<1>1. CASE Calm
  BY <1>1, CalmSame DEF Core, SockInv
<1>2. ASSUME NEW c \in Conn, Accept(c) \/ Reject(c) PROVE SockInv'
  <2>1. /\ \A d \in Conn : d # c => (IsOpen(d)' <=> IsOpen(d)) /\ Fd(d)' = Fd(d)
        /\ IsOpen(c)' /\ Fd(c)' \in FreeFds /\ \A d \in Conn : Listed(d)' <=> Listed(d)
    BY <1>2, AcceptEffect DEF IsOpen, Fd
  <2>2. \A d \in Conn : d # c /\ IsOpen(d) => Fd(d) # Fd(c)'
    BY <2>1 DEF FreeFds
  <2>. QED BY <2>1, <2>2 DEF Core, SockInv
<1>3. CASE AddToList
  BY <1>3, AddToListEffect DEF Core, SockInv, AccInv, IsOpen, Fd
<1>4. CASE Watch
  <2>1. UNCHANGED sock /\ \A d \in Conn : Listed(d)' <=> Listed(d)
    BY <1>4, WatchEffect
  <2>. QED BY <2>1 DEF Core, SockInv, IsOpen, Fd
<1>5. ASSUME NEW t \in Conn, Closing(t) PROVE SockInv'
  <2>1. /\ sock'[t].st = "closed" /\ \A d \in Conn : d # t => sock'[d] = sock[d]
        /\ \A d \in Conn : Listed(d)' <=> Listed(d) /\ d # t
    BY <1>5, CloseEffect
  <2>. QED BY <2>1 DEF Core, SockInv, IsOpen, Fd
<1>. QED BY <1>1, <1>2, <1>3, <1>4, <1>5, CoreSteps

LEMMA RegNext ==
  ASSUME Core, PastInv, AddMayFail = FALSE, DistinctPeers, [Next]_vars
  PROVE  RegInv'
<1>1. CASE Calm
  <2>1. UNCHANGED <<anfd, epoll, id>>
    BY <1>1 DEF Calm, ListSame
  <2>. QED BY <1>1, <2>1, CalmSame DEF Core, RegInv
<1>2. ASSUME NEW c \in Conn, Accept(c) \/ Reject(c) PROVE RegInv'
  <2>1. /\ \A d \in Conn : Settled(d)' <=> Settled(d)
        /\ \A d \in Conn : Settled(d) => d # c /\ id'[d] = id[d]
        /\ \A d \in Conn : d # c => Fd(d)' = Fd(d)
        /\ UNCHANGED <<anfd, epoll>>
    BY <1>2, AcceptEffect DEF IsOpen, Fd, Settled, Listed, Core, SockInv
  <2>. QED BY <2>1 DEF Core, RegInv
<1>3. CASE AddToList
  BY <1>3, AddToListEffect DEF Core, RegInv, Fd
<1>4. CASE Watch
  <2>0. PICK f, e : f = Fd(anew) /\ e = <<id[anew]>>
    OBVIOUS
  <2>1. /\ anew \in Conn /\ f \in Fds /\ ~anfd[f].used
        /\ anfd' = [anfd EXCEPT ![f] = [used |-> TRUE, evs |-> e, flag |-> TRUE]]
        /\ epoll' = epoll \cup {f} /\ UNCHANGED <<sock, id, anew>>
        /\ \A d \in Conn : Settled(d)' <=> Settled(d) \/ d = anew
    BY <1>4, <2>0, WatchEffect
  <2>2. /\ \A g \in Fds : g # f => anfd'[g] = anfd[g]
        /\ anfd'[f].used /\ anfd'[f].flag /\ anfd'[f].evs = e
    BY <2>1, CoreTypes
  <2>3. \A d \in Conn : Settled(d) => Fd(d) # f /\ Fd(d) \in Fds
    BY <2>1, CoreTypes DEF Core, RegInv, SockInv, Settled, Listed
  <2>4. ASSUME NEW d \in Conn, Settled(d)'
        PROVE  /\ Fd(d)' \in epoll' /\ anfd'[Fd(d)'].used /\ anfd'[Fd(d)'].flag
               /\ anfd'[Fd(d)'].evs = <<id'[d]>>
    <3>1. Fd(d)' = Fd(d)
      BY <2>1 DEF Fd
    <3>2. CASE d = anew
      BY <2>0, <2>1, <2>2, <3>1, <3>2
    <3>3. CASE Settled(d)
      BY <2>1, <2>2, <2>3, <3>1, <3>3 DEF Core, RegInv
    <3>. QED BY <2>1, <2>4, <3>2, <3>3
  <2>5. ASSUME NEW g \in Fds, anfd'[g].used PROVE \E d \in Conn : Settled(d)' /\ Fd(d)' = g
    <3>1. \A d \in Conn : Fd(d)' = Fd(d)
      BY <2>1 DEF Fd
    <3>. QED BY <2>0, <2>1, <2>2, <2>5, <3>1 DEF Core, RegInv
  <2>. QED BY <2>4, <2>5 DEF RegInv
<1>5. ASSUME NEW t \in Conn, Closing(t) PROVE RegInv'
  <2>0. PICK f : f = Fd(t)
    OBVIOUS
  <2>1. /\ Settled(t) /\ f \in Fds
        /\ \A d \in Conn : Settled(d)' <=> Settled(d) /\ d # t
        /\ \A d \in Conn : d # t => Fd(d)' = Fd(d)
        /\ anfd' = [anfd EXCEPT ![f].used = FALSE, ![f].evs = <<>>]
        /\ epoll' = epoll \ {f} /\ id' = id
    BY <1>5, <2>0, CloseEffect DEF Fd
  <2>2. (\A g \in Fds : g # f => anfd'[g] = anfd[g]) /\ ~anfd'[f].used
    BY <2>1, CoreTypes
  <2>3. \A d \in Conn : Settled(d) /\ d # t => Fd(d) # f /\ Fd(d) \in Fds
    BY <2>0, <2>1, CoreTypes DEF Core, SockInv, Settled, Listed
  <2>. QED BY <2>0, <2>1, <2>2, <2>3 DEF Core, RegInv
<1>. QED BY <1>1, <1>2, <1>3, <1>4, <1>5, CoreSteps

LEMMA AnnouncedNext ==
  ASSUME Core, PastInv, AddMayFail = FALSE, DistinctPeers, [Next]_vars
  PROVE  AnnouncedOnce'
<1>1. CASE Calm
  BY <1>1 DEF Calm, Core, AnnouncedOnce
<1>2. ASSUME NEW c \in Conn, Accept(c) \/ Reject(c) PROVE AnnouncedOnce'
  BY <1>2, AcceptEffect DEF Core, AnnouncedOnce, IsOpen
<1>3. CASE AddToList
  BY <1>3, AddToListEffect DEF Core, AnnouncedOnce
<1>4. CASE Watch
  BY <1>4, WatchEffect DEF Core, AnnouncedOnce
<1>5. ASSUME NEW t \in Conn, Closing(t) PROVE AnnouncedOnce'
  <2>1. cbs \in [Conn -> Nat]
    BY CoreTypes DEF TypeOK
  <2>2. /\ cbs' = [cbs EXCEPT ![t] = @ + 1] /\ IsOpen(t) /\ sock'[t].st = "closed"
        /\ \A d \in Conn : d # t => sock'[d] = sock[d]
    BY <1>5, CloseEffect
  <2>3. cbs[t] = 0
    BY <2>2 DEF Core, AnnouncedOnce, IsOpen
  <2>. QED BY <2>1, <2>2, <2>3 DEF Core, AnnouncedOnce
<1>. QED BY <1>1, <1>2, <1>3, <1>4, <1>5, CoreSteps

\* A connection that was settled stays so until it is closed, for good.
LEMMA PastKept ==
  ASSUME Core, PastInv, AddMayFail = FALSE, DistinctPeers, [Next]_vars, NEW c \in Conn, Past(c)
  PROVE  Past(c)'
<1>1. CASE Calm
  BY <1>1, CalmSame DEF Past, Calm
<1>2. ASSUME NEW d \in Conn, Accept(d) \/ Reject(d) PROVE Past(c)'
  BY <1>2, AcceptEffect DEF Past
<1>3. CASE AddToList
  BY <1>3, AddToListEffect DEF Past
<1>4. CASE Watch
  BY <1>4, WatchEffect DEF Past
<1>5. ASSUME NEW t \in Conn, Closing(t) PROVE Past(c)'
  BY <1>5, CloseEffect DEF Past
<1>. QED BY <1>1, <1>2, <1>3, <1>4, <1>5, CoreSteps

-----------------------------------------------------------------------------
(* Commands and what they are about.                                       *)

\* The elements of a sequence that got one more, or lost its first.
LEMMA InAppend ==
  ASSUME NEW S, NEW s \in Seq(S), NEW x \in S
  PROVE  \A i \in 1..Len(Append(s, x)) :
           \/ Append(s, x)[i] = x /\ i = Len(s) + 1
           \/ i \in 1..Len(s) /\ Append(s, x)[i] = s[i]
<1>1. Len(Append(s, x)) = Len(s) + 1 /\ Len(s) \in Nat
  BY AppendProperties, LenProperties
<1>2. Append(s, x)[Len(s) + 1] = x /\ \A i \in 1..Len(s) : Append(s, x)[i] = s[i]
  BY AppendProperties
<1>. QED BY <1>1, <1>2

LEMMA InTail ==
  ASSUME NEW S, NEW s \in Seq(S), s # <<>>
  PROVE  /\ Len(s) \in Nat \ {0} /\ Len(Tail(s)) = Len(s) - 1 /\ Head(s) = s[1]
         /\ \A i \in 1..Len(Tail(s)) : i + 1 \in 1..Len(s) /\ Tail(s)[i] = s[i + 1]
<1>1. Len(s) \in Nat \ {0} /\ Len(Tail(s)) = Len(s) - 1
  BY HeadTailProperties, LenProperties, EmptySeq
<1>. QED BY <1>1, HeadTailProperties

\* Where a connection or a command that somebody gets to know comes from.
LEMMA CommandSteps ==
  ASSUME TypeInv, [Next]_vars
  PROVE  /\ known' = known \/ (npc = "got" /\ known' = known \cup {cur})
         /\ \/ own' \subseteq own
            \/ npc = "got" /\ own' = {Close(cur)}
            \/ Takes(Timer) /\ own' = {Close(c) : c \in L!Overdue}
         /\ \/ sendq' = sendq
            \/ sendq # <<>> /\ sendq' = Tail(sendq)
            \/ \E x \in own : sendq' = Append(sendq, x)
            \/ \E h \in Handlers : hcmds[h] # <<>> /\ sendq' = Append(sendq, Head(hcmds[h]))
         /\ \/ hcmds' = hcmds
            \/ \E h \in Handlers : hcmds[h] # <<>> /\ hcmds' = [hcmds EXCEPT ![h] = Tail(@)]
            \/ \E h \in Handlers, c \in known, p \in Programs :
                 hcmds' = [hcmds EXCEPT ![h] =
                             [i \in 1..Len(p) |->
                                [op |-> p[i], conn |-> c, reply |-> p = <<"s", "c">>]]]
<1>1. CASE \/ EpollWait \/ OnNotify \/ ReadNothing \/ ReadGet \/ DrainEnd \/ Execute
           \/ \E f \in batch : OnReadable(f)
           \/ \E x \in own : PushOwn(x)
  BY <1>1 DEF EpollWait, OnNotify, ReadNothing, ReadGet, DrainEnd, Execute, OnReadable, PushOwn,
              netv, hanv
<1>2. CASE OnTimer
  BY <1>2 DEF OnTimer, hanv
<1>6. CASE ReadData \/ ReadEnd
  BY <1>6 DEF ReadData, ReadEnd, hanv
<1>3. CASE AcceptStep \/ Clock \/ UNCHANGED vars
           \/ \E c \in Conn : Accept(c) \/ Reject(c) \/ PeerSends(c) \/ PeerCloses(c)
  BY <1>3 DEF AcceptStep, AddToList, Watch, Undo, Clock, Accept, Reject, PeerSends, PeerCloses,
              vars, netv, hanv
<1>4. ASSUME NEW h \in Handlers, NEW c \in known, NEW p \in Programs, Begin(h, c, p)
      PROVE  /\ UNCHANGED <<known, own, sendq>>
             /\ hcmds' = [hcmds EXCEPT ![h] =
                            [i \in 1..Len(p) |->
                               [op |-> p[i], conn |-> c, reply |-> p = <<"s", "c">>]]]
  BY <1>4 DEF Begin, netv
<1>5. ASSUME NEW h \in Handlers, HandlerStep(h)
      PROVE  /\ UNCHANGED <<known, own>>
             /\ \/ sendq' = sendq
                \/ hcmds[h] # <<>> /\ sendq' = Append(sendq, Head(hcmds[h]))
             /\ \/ hcmds' = hcmds
                \/ hcmds[h] # <<>> /\ hcmds' = [hcmds EXCEPT ![h] = Tail(@)]
  BY <1>5 DEF HandlerStep, Push, Pushes, Pushed, Enqueue, Refuse, Wake, netv
<1>. QED BY <1>1, <1>2, <1>3, <1>4, <1>5, <1>6 DEF Next, NetStep

\* The connection that is read next is settled.
LEMMA ReadSettled ==
  ASSUME Core, TodoInv, npc = "read"
  PROVE  /\ todo # <<>> /\ todo \in Seq(1..Total)
         /\ L!Lookup(Head(todo)) \in Conn /\ Settled(L!Lookup(Head(todo)))
         /\ id[L!Lookup(Head(todo))] = Head(todo)
<1>1. todo # <<>> /\ todo \in Seq(1..Total)
  BY DEF Core, TypeInv, TypeOK
<1>2. 1 \in 1..Len(todo) /\ Head(todo) = todo[1]
  BY <1>1, InTail
<1>3. PICK c \in Conn : Settled(c) /\ todo[1] = id[c]
  BY <1>2 DEF TodoInv
<1>4. L!Lookup(id[c]) = c
  BY <1>3, CoreTypes, ListFacts DEF Settled, Listed
<1>. QED BY <1>1, <1>2, <1>3, <1>4

\* Every connection that somebody knows or has a command for is in P.
About(P) ==
  /\ known \subseteq P
  /\ \A i \in 1..Len(sendq) : sendq[i].conn \in P
  /\ \A x \in own : x.conn \in P
  /\ \A h \in Handlers : \A i \in 1..Len(hcmds[h]) : hcmds[h][i].conn \in P

LEMMA AboutNext ==
  ASSUME TypeInv, [Next]_vars, NEW P, About(P), npc = "got" => cur \in P,
         Takes(Timer) => L!Overdue \subseteq P
  PROVE  About(P)'
<1>1. /\ own \subseteq Command /\ sendq \in Seq(Command) /\ hcmds \in [Handlers -> Seq(Command)]
  BY DEF TypeInv, TypeOK
<1>2. known' \subseteq P
  BY CommandSteps DEF About
<1>3. ASSUME NEW x \in own' PROVE x.conn \in P
  BY CommandSteps DEF About, Close
<1>4. ASSUME NEW h \in Handlers, hcmds[h] # <<>>
      PROVE  Head(hcmds[h]) \in Command /\ Head(hcmds[h]).conn \in P
  <2>1. hcmds[h] \in Seq(Command)
    BY <1>1
  <2>2. 1 \in 1..Len(hcmds[h]) /\ Head(hcmds[h]) = hcmds[h][1]
    BY <1>4, <2>1, InTail
  <2>3. Head(hcmds[h]) \in Command
    BY <1>4, <2>1, HeadTailProperties
  <2>. QED BY <2>2, <2>3 DEF About
<1>5. ASSUME NEW i \in 1..Len(sendq') PROVE sendq'[i].conn \in P
  <2>1. CASE sendq' = sendq
    BY <2>1 DEF About
  <2>2. CASE sendq # <<>> /\ sendq' = Tail(sendq)
    BY <1>1, <1>5, <2>2, InTail DEF About
  <2>3. ASSUME NEW x \in Command, x.conn \in P, sendq' = Append(sendq, x)
        PROVE  sendq'[i].conn \in P
    BY <1>1, <1>5, <2>3, InAppend DEF About
  <2>. QED BY <1>1, <1>4, <2>1, <2>2, <2>3, CommandSteps DEF About
<1>6. ASSUME NEW g \in Handlers, NEW i \in 1..Len(hcmds'[g]) PROVE hcmds'[g][i].conn \in P
  <2>1. CASE hcmds'[g] = hcmds[g]
    BY <2>1 DEF About
  <2>2. CASE hcmds[g] # <<>> /\ hcmds'[g] = Tail(hcmds[g])
    BY <1>1, <1>6, <2>2, InTail DEF About
  <2>3. ASSUME NEW c \in known, NEW p \in Programs,
               hcmds'[g] = [j \in 1..Len(p) |->
                              [op |-> p[j], conn |-> c, reply |-> p = <<"s", "c">>]]
        PROVE  hcmds'[g][i].conn \in P
    <3>1. Len(p) \in Nat
      BY NetAssumption, LenProperties DEF NetAssumption
    <3>2. Len(hcmds'[g]) = Len(p)
      BY <2>3, <3>1
    <3>3. hcmds'[g][i].conn = c
      BY <1>6, <2>3, <3>2
    <3>. QED BY <3>3 DEF About
  <2>. QED BY <1>1, <2>1, <2>2, <2>3, CommandSteps
<1>. QED BY <1>2, <1>3, <1>5, <1>6 DEF About

LEMMA PastNext ==
  ASSUME Core, PastInv, TodoInv, AddMayFail = FALSE, DistinctPeers, [Next]_vars
  PROVE  PastInv'
<1>1. /\ known \subseteq Conn /\ own \subseteq Command
      /\ sendq \in Seq(Command) /\ hcmds \in [Handlers -> Seq(Command)]
  BY CoreTypes DEF TypeOK
<1>2. PICK P : P = {c \in Conn : Past(c)'}
  OBVIOUS
<1>3. \A c \in Conn : Past(c) => c \in P
  BY <1>2, PastKept
<1>4. About(P)
  <2>1. ASSUME NEW i \in 1..Len(sendq) PROVE sendq[i].conn \in P
    <3>1. sendq[i] \in Command
      BY <1>1, LenProperties
    <3>. QED BY <1>3, <3>1 DEF PastInv, Command
  <2>2. ASSUME NEW h \in Handlers, NEW i \in 1..Len(hcmds[h]) PROVE hcmds[h][i].conn \in P
    <3>1. hcmds[h] \in Seq(Command)
      BY <1>1
    <3>2. hcmds[h][i] \in Command
      BY <3>1, LenProperties
    <3>. QED BY <1>3, <3>2 DEF PastInv, Command
  <2>. QED BY <1>1, <1>3, <2>1, <2>2 DEF About, PastInv, Command
<1>5. npc = "got" => cur \in P
  BY <1>3, NetAssumption DEF Core, CurInv, Past, TypeInv, UseInv, NetAssumption
<1>6. ASSUME Takes(Timer), NEW c \in L!Overdue PROVE c \in P
  <2>1. c \in Conn /\ Listed(c)
    BY CoreTypes, OverdueListed DEF Core, TypeInv
  <2>2. apc = "idle"
    BY <1>6 DEF Takes, TodoInv, InAccept
  <2>. QED BY <1>3, <2>1, <2>2 DEF Past, Settled, Listed
<1>7. About(P)'
  BY <1>4, <1>5, <1>6, AboutNext DEF Core
<1>. QED BY <1>2, <1>7 DEF PastInv, About

-----------------------------------------------------------------------------
(* What the network thread still has to read.                              *)

\* The steps, by what they do to the ids that wait to be read.
LEMMA TodoSteps ==
  ASSUME TypeInv, [Next]_vars
  PROVE  \/ UNCHANGED <<todo, npc, cur>>
         \/ npc = "wait" /\ UNCHANGED <<todo, cur>> /\ npc' \in {"wait", "push", "drain"}
         \/ \E f \in Fds : /\ npc = "wait" /\ npc' = "read" /\ cur' = cur
                           /\ anfd[f].used /\ todo' = anfd[f].evs
         \/ npc = "read" /\ todo' = Tail(todo) /\ cur' = cur /\ npc' = Resume(todo')
         \/ /\ npc = "read" /\ todo' = Tail(todo) /\ npc' = "got"
            /\ cur' = L!Lookup(Head(todo))
         \/ npc \in {"got", "push"} /\ todo' = todo /\ npc' = "push" /\ cur' = cur
         \/ npc \in {"got", "push"} /\ todo' = todo /\ npc' = Resume(todo) /\ cur' = NoConn
         \/ npc = "drain" /\ UNCHANGED <<todo, cur>> /\ npc' = "wait"
<1>1. CASE EpollWait \/ OnNotify \/ OnTimer \/ ReadNothing \/ DrainEnd \/ Execute
  BY <1>1 DEF EpollWait, OnNotify, OnTimer, ReadNothing, DrainEnd, Execute, Takes, netv, curv
<1>7. CASE ReadGet \/ ReadData \/ ReadEnd
  BY <1>7 DEF ReadGet, ReadData, ReadEnd, curv
<1>2. ASSUME NEW f \in batch, OnReadable(f)
      PROVE  \/ UNCHANGED <<todo, npc, cur>>
             \/ \E g \in Fds : /\ npc = "wait" /\ npc' = "read" /\ cur' = cur
                               /\ anfd[g].used /\ todo' = anfd[g].evs
  BY <1>2 DEF OnReadable, Takes, curv
<1>3. ASSUME NEW x \in own, PushOwn(x)
      PROVE  /\ npc = "push" /\ todo' = todo
             /\ \/ npc' = Resume(todo) /\ cur' = NoConn
                \/ npc' = "push" /\ cur' = cur
  BY <1>3 DEF PushOwn, PushedAll
<1>4. CASE AcceptStep \/ \E c \in Conn : Accept(c) \/ Reject(c) \/ PeerSends(c) \/ PeerCloses(c)
  BY <1>4 DEF AcceptStep, AddToList, Watch, Undo, Accept, Reject, PeerSends, PeerCloses, netv, curv
<1>5. ASSUME NEW h, HandlerStep(h) \/ \E c, p : Begin(h, c, p) PROVE UNCHANGED <<npc, todo, cur>>
  BY <1>5 DEF HandlerStep, Push, Wake, Begin, netv, curv
<1>6. CASE Clock \/ UNCHANGED vars
  BY <1>6 DEF Clock, vars, netv, curv
<1>. QED BY <1>1, <1>2, <1>3, <1>4, <1>5, <1>6, <1>7 DEF Next, NetStep

\* Only the clock of the thread with index 0 makes its timer fire.
LEMMA TimerSteps ==
  ASSUME TypeInv, [Next]_vars, Timer \in ready' \cup batch'
  PROVE  Index = 0 \/ Timer \in ready \cup batch
<1>. DEFINE Fires == Timer \in ready' \cup batch' => Index = 0 \/ Timer \in ready \cup batch
<1>1. Timer # Notify /\ Timer \notin Fds /\ epoll \subseteq Fds
  BY NetAssumption DEF Timer, Notify, NetAssumption, TypeInv, TypeOK
<1>2. CASE \/ EpollWait \/ OnNotify \/ OnTimer \/ ReadNothing \/ ReadGet \/ ReadData
           \/ ReadEnd \/ DrainEnd \/ \E f \in batch : OnReadable(f)
  BY <1>2 DEF EpollWait, OnNotify, OnTimer, ReadNothing, ReadGet, ReadData, ReadEnd, DrainEnd,
              OnReadable, Takes
<1>3. ASSUME NEW x \in own, PushOwn(x) PROVE Fires
  BY <1>1, <1>3 DEF PushOwn
<1>4. CASE Execute
  BY <1>4 DEF Execute, DoSend, DoSetData, DoClose
<1>5. CASE AddToList \/ Undo \/ \E c \in Conn : Accept(c) \/ Reject(c)
  BY <1>5 DEF AddToList, Undo, Accept, Reject
<1>6. CASE Watch
  <2>1. Fd(anew) \in Fds
    BY <1>6 DEF Watch, TypeInv, UseInv
  <2>2. batch' = batch /\ ready' \in {ready, ready \cup {Fd(anew)}}
    BY <1>6 DEF Watch
  <2>. QED BY <1>1, <2>1, <2>2
<1>7. ASSUME NEW c \in Conn, PeerSends(c) \/ PeerCloses(c) PROVE Fires
  BY <1>1, <1>7 DEF PeerSends, PeerCloses, Edge
<1>8. ASSUME NEW h \in Handlers, HandlerStep(h) \/ \E c, p : Begin(h, c, p) PROVE Fires
  BY <1>1, <1>8 DEF HandlerStep, Push, Wake, Begin
<1>9. CASE Clock \/ UNCHANGED vars
  BY <1>9 DEF Clock, vars
<1>. QED BY <1>2, <1>3, <1>4, <1>5, <1>6, <1>7, <1>8, <1>9 DEF Next, NetStep, AcceptStep

\* A settled connection stays settled while nothing is closed.
LEMMA SettledKept ==
  ASSUME Core, AddMayFail = FALSE, [Next]_vars, ~ \E t \in Conn : Closing(t),
         NEW c \in Conn, Settled(c)
  PROVE  Settled(c)' /\ id'[c] = id[c] /\ Fd(c)' = Fd(c)
<1>1. CASE Calm
  BY <1>1, CalmSame DEF Calm, ListSame
<1>2. ASSUME NEW d \in Conn, Accept(d) \/ Reject(d) PROVE Settled(c)' /\ id'[c] = id[c] /\ Fd(c)' = Fd(c)
  <2>1. Listed(c) /\ IsOpen(c) /\ c # d
    BY <1>2, AcceptEffect DEF Settled, Listed, Core, SockInv, IsOpen
  <2>. QED BY <1>2, <2>1, AcceptEffect DEF Fd
<1>3. CASE AddToList
  BY <1>3, AddToListEffect DEF Fd
<1>4. CASE Watch
  BY <1>4, WatchEffect DEF Fd
<1>. QED BY <1>1, <1>2, <1>3, <1>4, CoreSteps

LEMMA CurNext ==
  ASSUME Core, TodoInv, AddMayFail = FALSE, [Next]_vars
  PROVE  CurInv'
<1>1. CASE \E t \in Conn : Closing(t)
  <2>1. npc = "drain" /\ UNCHANGED cur
    BY <1>1 DEF Closing, netv, curv
  <2>. QED BY <2>1 DEF Core, TypeInv, CurInv
<1>2. ASSUME ~ \E t \in Conn : Closing(t), NEW c \in Conn, Settled(c) PROVE Settled(c)'
  BY <1>2, SettledKept
<1>3. cur' # NoConn => cur' \in Conn /\ Settled(cur')
  <2>1. cur # NoConn => cur \in Conn
    BY CoreTypes DEF TypeOK
  <2>. QED BY <2>1, TodoSteps, ReadSettled DEF Core, CurInv
<1>4. PICK c : c = cur'
  OBVIOUS
<1>5. ASSUME c # NoConn, ~ \E t \in Conn : Closing(t) PROVE Settled(c)'
  BY <1>2, <1>3, <1>4, <1>5
<1>. QED BY <1>1, <1>4, <1>5 DEF CurInv, Settled, L!IsListed

LEMMA TodoNext ==
  ASSUME Core, PastInv, TodoInv, AddMayFail = FALSE, DistinctPeers, [Next]_vars
  PROVE  TodoInv'
<1>1. todo \in Seq(1..Total) /\ (npc = "read" => todo # <<>>)
  BY DEF Core, TypeInv, TypeOK
<1>2. npc' \in {"wait", "drain"} => todo' = <<>>
  BY TodoSteps DEF TodoInv, Resume, Core
<1>3. ASSUME NEW i \in 1..Len(todo') PROVE \E c \in Conn : Settled(c)' /\ todo'[i] = id'[c]
  <2>1. CASE \E t \in Conn : Closing(t)
    <3>1. todo' = <<>>
      BY <2>1, CloseEffect DEF TodoInv
    <3>. QED BY <1>3, <3>1, EmptySeq
  <2>2. ASSUME ~ \E t \in Conn : Closing(t),
               NEW c \in Conn, Settled(c), todo'[i] = id[c]
        PROVE  \E d \in Conn : Settled(d)' /\ todo'[i] = id'[d]
    BY <2>2, SettledKept
  <2>3. CASE todo' = todo
    BY <1>3, <2>1, <2>2, <2>3 DEF TodoInv
  <2>4. CASE npc = "read" /\ todo' = Tail(todo)
    <3>1. i + 1 \in 1..Len(todo) /\ todo'[i] = todo[i + 1]
      BY <1>1, <1>3, <2>4, InTail
    <3>. QED BY <2>1, <2>2, <3>1 DEF TodoInv
  <2>5. ASSUME NEW f \in Fds, anfd[f].used, todo' = anfd[f].evs
        PROVE  \E c \in Conn : Settled(c)' /\ todo'[i] = id'[c]
    <3>1. PICK c \in Conn : Settled(c) /\ Fd(c) = f /\ anfd[f].evs = <<id[c]>>
      BY <2>5 DEF Core, RegInv
    <3>2. todo'[i] = id[c]
      BY <1>3, <2>5, <3>1
    <3>. QED BY <2>1, <2>2, <3>1, <3>2
  <2>. QED BY <2>3, <2>4, <2>5, TodoSteps DEF Core
<1>4. Timer \in ready' \cup batch' => Index = 0
  BY TimerSteps DEF Core, TodoInv
<1>. QED BY <1>2, <1>3, <1>4 DEF TodoInv

\* What the steps that are not closes do to the data of a settled connection.
LEMMA EdgeKept ==
  ASSUME Core, TodoInv, NoLostEdge, AddMayFail = FALSE, [Next]_vars,
         ~ \E t \in Conn : Closing(t),
         NEW c \in Conn, Settled(c), sock'[c].data = "unread"
  PROVE  \/ Fd(c) \in ready' \cup batch'
         \/ npc' \in {"read", "got", "push"} /\ \E i \in 1..Len(todo') : todo'[i] = id[c]
         \/ npc' = "got" /\ cur' = c
<1>0. PICK f, u : f = Fd(c) /\ u = id[c]
  OBVIOUS
<1>. DEFINE Seen == \/ f \in ready' \cup batch'
                    \/ npc' \in {"read", "got", "push"} /\ \E i \in 1..Len(todo') : todo'[i] = u
                    \/ npc' = "got" /\ cur' = c
<1>. DEFINE Kept == /\ sock'[c] = sock[c] /\ ready \cup batch \subseteq ready' \cup batch'
                    /\ UNCHANGED <<npc, todo, cur>>
<1>1. /\ Listed(c) /\ f \in Fds /\ f # Notify /\ f # Timer
      /\ f \in epoll /\ anfd[f].used /\ anfd[f].flag /\ anfd[f].evs = <<u>>
  BY <1>0, CoreTypes, NetAssumption
  DEF Core, RegInv, SockInv, Settled, Listed, NetAssumption, Notify, Timer
<1>2. ASSUME sock[c].data = "unread"
      PROVE  \/ f \in ready \cup batch
             \/ npc \in {"read", "got", "push"} /\ \E i \in 1..Len(todo) : todo[i] = u
             \/ npc = "got" /\ cur = c
  BY <1>0, <1>2 DEF NoLostEdge
<1>3. ASSUME Kept PROVE Seen
  BY <1>2, <1>3
<1>4. ASSUME EpollWait \/ Clock \/ AddToList \/ UNCHANGED vars PROVE Kept
  BY <1>4 DEF EpollWait, Clock, AddToList, vars, netv, curv
<1>5. ASSUME OnNotify \/ OnTimer \/ DrainEnd PROVE Seen
  <2>1. /\ npc \in {"wait", "drain"} /\ sock' = sock /\ ready' = ready
        /\ batch' \in {batch, batch \ {Notify}, batch \ {Timer}}
    BY <1>5 DEF OnNotify, OnTimer, DrainEnd, Takes
  <2>. QED BY <1>1, <1>2, <2>1
<1>6. ASSUME NEW g \in batch, OnReadable(g) PROVE Seen
  <2>1. CASE g = f
    <3>1. todo' = <<u>> /\ npc' = "read"
      BY <1>1, <1>6, <2>1 DEF OnReadable
    <3>2. 1 \in 1..Len(todo') /\ todo'[1] = u
      BY <3>1
    <3>. QED BY <3>1, <3>2
  <2>2. CASE g # f
    BY <1>2, <1>6, <2>2 DEF OnReadable, Takes
  <2>. QED BY <2>1, <2>2
<1>15. ASSUME NEW i \in 1..Len(todo), todo[i] = u PROVE npc' = Resume(todo) => npc' = "read"
  <2>1. todo \in Seq(1..Total)
    BY CoreTypes DEF TypeOK
  <2>. QED BY <1>15, <2>1, EmptySeq DEF Resume
<1>7. ASSUME NEW x \in own, PushOwn(x) PROVE Seen
  <2>1. /\ npc = "push" /\ todo' = todo /\ batch' = batch /\ ready' = ready \cup {Notify}
        /\ npc' \in {"push", Resume(todo)}
    BY <1>7 DEF PushOwn, PushedAll
  <2>2. sock[c].data = "unread"
    <3>1. cur # NoConn => cur \in Conn
      BY CoreTypes DEF TypeOK
    <3>2. sock' \in {sock, [sock EXCEPT ![cur].st = LetGo(cur)]} /\ (sock' # sock => cur # NoConn)
      BY <1>7 DEF PushOwn, PushedAll
    <3>. QED BY <3>1, <3>2, CoreTypes DEF Socket
  <2>. QED BY <1>2, <1>15, <2>1, <2>2
<1>16. ASSUME ReadData \/ ReadEnd PROVE Seen
  <2>1. /\ npc = "got" /\ todo' = todo /\ npc' \in {Resume(todo), "push"}
        /\ UNCHANGED <<ready, batch>>
    BY <1>16 DEF ReadData, ReadEnd
  <2>2. cur \in Conn /\ sock[cur] \in Socket
    BY <1>16, CoreTypes DEF UseInv, ReadData, ReadEnd
  <2>3. sock'[cur].data # "unread" /\ \A d \in Conn : d # cur => sock'[d] = sock[d]
    <3>1. CASE ReadData
      <4>1. PICK e, z : /\ e = (IF sock[cur].data = "unread" THEN "read" ELSE sock[cur].data)
                        /\ z = LetGo(cur)
        OBVIOUS
      <4>2. sock' = [sock EXCEPT ![cur].data = e, ![cur].st = z] /\ e # "unread"
        BY <3>1, <4>1 DEF ReadData
      <4>. QED BY <2>2, <4>2, CoreTypes DEF Socket
    <3>2. CASE ReadEnd
      <4>1. \/ sock' = [sock EXCEPT ![cur].data = "read"]
            \/ sock' = sock /\ sock[cur].data # "unread"
        BY <3>2 DEF ReadEnd
      <4>. QED BY <2>2, <4>1, CoreTypes DEF Socket
    <3>. QED BY <1>16, <3>1, <3>2
  <2>4. c # cur /\ sock[c].data = "unread"
    BY <2>3
  <2>. QED BY <1>2, <1>15, <2>1, <2>4
<1>8. ASSUME ReadNothing \/ ReadGet PROVE Seen
  <2>0. PICK d : d = L!Lookup(Head(todo))
    OBVIOUS
  <2>1. /\ todo # <<>> /\ todo \in Seq(1..Total) /\ d \in Conn /\ d # NoConn
        /\ Listed(d) /\ id[d] = Head(todo) /\ npc = "read"
    BY <1>8, <2>0, ReadSettled, NetAssumption
    DEF Settled, Listed, ReadNothing, ReadGet, NetAssumption
  <2>2. /\ sock' = sock /\ todo' = Tail(todo) /\ npc' = "got" /\ cur' = d
        /\ UNCHANGED <<ready, batch>>
    BY <1>8, <2>0, <2>1 DEF ReadNothing, ReadGet
  <2>3. CASE c = d
    BY <2>2, <2>3
  <2>4. u # Head(todo) \/ c = d
    BY <1>0, <1>1, <2>1, CoreTypes, ListFacts
  <2>5. ASSUME NEW i \in 1..Len(todo), todo[i] = u, c # d
        PROVE  \E j \in 1..Len(todo') : todo'[j] = u
    <3>1. /\ Head(todo) = todo[1] /\ Len(todo) \in Nat /\ Len(Tail(todo)) = Len(todo) - 1
          /\ \A j \in 1..Len(Tail(todo)) : Tail(todo)[j] = todo[j + 1]
      BY <2>1, InTail
    <3>2. i - 1 \in 1..Len(Tail(todo)) /\ Tail(todo)[i - 1] = u
      BY <2>4, <2>5, <3>1
    <3>. QED BY <2>2, <3>2
  <2>. QED BY <1>2, <2>1, <2>2, <2>3, <2>5
<1>9. ASSUME Execute PROVE Kept
  <2>1. ASSUME NEW t \in Conn, t = Target(Head(sendq)), DoClose(t, Head(sendq)), Head(sendq).op = "c"
        PROVE  FALSE
    <3>1. Listed(t)
      BY <2>1, NetAssumption, CoreTypes, ListFacts DEF Target, NetAssumption
    <3>. QED BY <1>9, <2>1, <3>1 DEF Execute, Closing
  <2>2. Target(Head(sendq)) # NoConn => Target(Head(sendq)) \in Conn
    BY CoreTypes, ListFacts DEF Target
  <2>3. UNCHANGED <<sock, ready, batch, npc, todo, cur>>
    BY <1>9, <2>1, <2>2 DEF Execute, DoSend, DoSetData, netv, curv
  <2>. QED BY <2>3
<1>10. ASSUME NEW d \in Conn, Accept(d) \/ Reject(d) PROVE Kept
  <2>1. c # d
    BY <1>1, <1>10, AcceptEffect DEF Core, SockInv, IsOpen
  <2>2. cur' = cur
    BY <1>10 DEF Accept, Reject, netv, curv
  <2>. QED BY <1>10, <2>1, <2>2, AcceptEffect
<1>11. ASSUME Watch PROVE Kept
  <2>1. UNCHANGED <<sock, batch, npc, todo, cur>> /\ ready \subseteq ready'
    <3>1. UNCHANGED <<sock, batch, npc, todo>> /\ ready \subseteq ready'
      BY <1>11, WatchEffect
    <3>2. cur' = cur
      BY <1>11 DEF Watch, netv, curv
    <3>. QED BY <3>1, <3>2
  <2>. QED BY <2>1
<1>12. ASSUME NEW d \in Conn, PeerSends(d) \/ PeerCloses(d) PROVE Seen
  <2>1. /\ ready' = IF Fd(d) \in epoll THEN ready \cup {Fd(d)} ELSE ready
        /\ UNCHANGED <<batch, npc, todo, cur>>
        /\ sock' \in {[sock EXCEPT ![d].data = "unread"], [sock EXCEPT ![d].fin = TRUE]}
    BY <1>12 DEF PeerSends, PeerCloses, Edge, netv, curv
  <2>2. CASE c = d
    BY <1>0, <1>1, <2>1, <2>2
  <2>3. CASE c # d
    <3>1. sock'[c] = sock[c]
      BY <2>1, <2>3, CoreTypes
    <3>. QED BY <1>3, <2>1, <3>1
  <2>. QED BY <2>2, <2>3
<1>13. ASSUME NEW h \in Handlers, HandlerStep(h) \/ \E d, p : Begin(h, d, p) PROVE Kept
  <2>1. UNCHANGED <<sock, batch, npc, todo, cur>> /\ ready \subseteq ready'
    BY <1>13 DEF HandlerStep, Push, Wake, Begin, netv, curv
  <2>. QED BY <2>1
<1>14. ~Undo
  BY NeverUndone
<1>17. Seen
  BY <1>3, <1>4, <1>5, <1>6, <1>7, <1>8, <1>9, <1>10, <1>11, <1>12, <1>13, <1>14,
     <1>16
  DEF Next, NetStep, AcceptStep
<1>. QED BY <1>0, <1>17

LEMMA EdgeNext ==
  ASSUME Core, PastInv, TodoInv, NoLostEdge, AddMayFail = FALSE, DistinctPeers, [Next]_vars
  PROVE  NoLostEdge'
<1>1. SUFFICES ASSUME NEW c \in Conn, Settled(c)', sock'[c].data = "unread"
               PROVE  \/ Fd(c)' \in ready' \cup batch'
                      \/ /\ npc' \in {"read", "got", "push"}
                         /\ \E i \in 1..Len(todo') : todo'[i] = id'[c]
                      \/ npc' = "got" /\ cur' = c
  BY DEF NoLostEdge
<1>2. CASE \E t \in Conn : Closing(t)
  <2>1. PICK t \in Conn : Closing(t)
    BY <1>2
  <2>2. /\ Settled(c) /\ c # t /\ sock'[c] = sock[c] /\ npc = "drain"
        /\ IsOpen(t) /\ ready' = ready \ {Fd(t)} /\ UNCHANGED <<batch, todo, npc>>
    BY <1>1, <2>1, CloseEffect
  <2>3. Fd(c) \in ready \cup batch
    BY <1>1, <2>2 DEF NoLostEdge
  <2>4. Fd(c) # Fd(t) /\ Fd(c)' = Fd(c)
    BY <2>2 DEF Core, SockInv, Settled, Listed, Fd
  <2>. QED BY <2>2, <2>3, <2>4
<1>3. CASE Watch /\ c = anew
  BY <1>1, <1>3, WatchEffect DEF Fd
<1>4. CASE ~(\E t \in Conn : Closing(t)) /\ Settled(c)
  <2>1. Fd(c)' = Fd(c) /\ id'[c] = id[c]
    BY <1>4, SettledKept
  <2>2. \/ Fd(c) \in ready' \cup batch'
        \/ npc' \in {"read", "got", "push"} /\ \E i \in 1..Len(todo') : todo'[i] = id[c]
        \/ npc' = "got" /\ cur' = c
    BY <1>1, <1>4, EdgeKept
  <2>. QED BY <2>1, <2>2
<1>5. ASSUME ~Settled(c), ~ \E t \in Conn : Closing(t) PROVE Watch /\ c = anew
  <2>1. CASE Calm
    BY <1>1, <1>5, <2>1, CalmSame
  <2>2. ASSUME NEW d \in Conn, Accept(d) \/ Reject(d) PROVE FALSE
    BY <1>1, <1>5, <2>2, AcceptEffect
  <2>3. CASE AddToList
    BY <1>1, <1>5, <2>3, AddToListEffect
  <2>4. CASE Watch
    BY <1>1, <1>5, <2>4, WatchEffect
  <2>. QED BY <1>5, <2>1, <2>2, <2>3, <2>4, CoreSteps
<1>. QED BY <1>2, <1>3, <1>4, <1>5

-----------------------------------------------------------------------------
(* What a command does.                                                    *)

\* Only a command that meets its connection has an effect.
LEMMA SeenSteps ==
  ASSUME TypeInv, [Next]_vars
  PROVE  \/ UNCHANGED <<cbs, answered, left, replied, userData>>
         \/ \E t \in Conn :
              /\ Execute /\ sendq # <<>> /\ t = Target(Head(sendq)) /\ Listed(t)
              /\ \/ DoSend(t) /\ Head(sendq).op = "s"
                 \/ DoSetData(t) /\ Head(sendq).op = "m"
                 \/ DoClose(t, Head(sendq)) /\ Closing(t)
<1>1. CASE Execute
  <2>0. PICK x, t : x = Head(sendq) /\ t = Target(x)
    OBVIOUS
  <2>1. t # NoConn => t \in Conn /\ Listed(t)
    BY <2>0, ListFacts DEF Target, TypeInv
  <2>2. CASE t = NoConn
    BY <1>1, <2>0, <2>2 DEF Execute, repv
  <2>3. CASE t # NoConn /\ \/ DoSend(t) /\ x.op = "s"
                           \/ DoSetData(t) /\ x.op = "m"
    BY <1>1, <2>0, <2>1, <2>3 DEF Execute
  <2>4. CASE t # NoConn /\ DoClose(t, x) /\ x.op = "c"
    BY <1>1, <2>0, <2>1, <2>4 DEF Execute, Closing
  <2>. QED BY <1>1, <2>0, <2>2, <2>3, <2>4 DEF Execute
<1>2. CASE \/ EpollWait \/ OnNotify \/ OnTimer \/ ReadNothing \/ ReadGet \/ ReadData
           \/ ReadEnd \/ DrainEnd
           \/ \E f \in batch : OnReadable(f)
           \/ \E x \in own : PushOwn(x)
  BY <1>2 DEF EpollWait, OnNotify, OnTimer, ReadNothing, ReadGet, ReadData, ReadEnd, DrainEnd,
              OnReadable, PushOwn, seen, repv
<1>3. CASE AcceptStep \/ Clock \/ UNCHANGED vars
           \/ \E c \in Conn : Accept(c) \/ Reject(c) \/ PeerSends(c) \/ PeerCloses(c)
  BY <1>3 DEF AcceptStep, AddToList, Watch, Undo, Clock, Accept, Reject, PeerSends, PeerCloses,
              vars, seen, repv
<1>4. ASSUME NEW h \in Handlers, HandlerStep(h) \/ \E c, p : Begin(h, c, p)
      PROVE  UNCHANGED <<cbs, answered, left, replied, userData>>
  BY <1>4 DEF HandlerStep, Push, Wake, Begin, seen, repv
<1>. QED BY <1>1, <1>2, <1>3, <1>4 DEF Next, NetStep

\* Nothing but a close ends a connection that add_connector is done with.
LEMMA OpenKept ==
  ASSUME Core, AddMayFail = FALSE, [Next]_vars, ~ \E t \in Conn : Closing(t),
         NEW c \in Conn, IsOpen(c)
  PROVE  IsOpen(c)'
<1>1. CASE Calm
  BY <1>1, CalmSame
<1>2. ASSUME NEW d \in Conn, Accept(d) \/ Reject(d) PROVE IsOpen(c)'
  BY <1>2, AcceptEffect DEF IsOpen
<1>3. CASE AddToList \/ Watch
  BY <1>3, AddToListEffect, WatchEffect DEF IsOpen
<1>. QED BY <1>1, <1>2, <1>3, CoreSteps

LEMMA DataNext ==
  ASSUME Core, PastInv, NoOrphanData, AddMayFail = FALSE, DistinctPeers, [Next]_vars
  PROVE  NoOrphanData'
<1>1. userData \subseteq Conn
  BY CoreTypes DEF TypeOK
<1>2. CASE UNCHANGED <<cbs, answered, left, replied, userData>>
  <2>1. ASSUME NEW t \in Conn, Closing(t) PROVE FALSE
    <3>1. cbs \in [Conn -> Nat] /\ cbs' = [cbs EXCEPT ![t] = @ + 1]
      BY <2>1, CoreTypes, CloseEffect DEF TypeOK
    <3>. QED BY <1>2, <3>1
  <2>. QED BY <1>1, <1>2, <2>1, OpenKept DEF NoOrphanData
<1>3. ASSUME NEW t \in Conn, Listed(t), DoSend(t) \/ DoSetData(t) PROVE NoOrphanData'
  <2>1. IsOpen(t)
    BY <1>3 DEF Core, SockInv
  <2>. QED BY <1>1, <1>3, <2>1 DEF DoSend, DoSetData, NoOrphanData, IsOpen
<1>4. ASSUME NEW t \in Conn, DoClose(t, Head(sendq)), Closing(t) PROVE NoOrphanData'
  <2>1. userData' = userData \ {t} /\ \A d \in Conn : d # t => sock'[d] = sock[d]
    BY <1>4, CloseEffect DEF DoClose
  <2>. QED BY <1>1, <2>1 DEF NoOrphanData, IsOpen
<1>. QED BY <1>2, <1>3, <1>4, SeenSteps DEF Core

-----------------------------------------------------------------------------
(* The properties of the loop.                                             *)

LoopInv == Core /\ PastInv /\ TodoInv /\ NoLostEdge /\ NoOrphanData

LEMMA LoopInit == Init => LoopInv
<1>1. SUFFICES ASSUME Init PROVE LoopInv
  OBVIOUS
<1>2. TypeInv
  BY <1>1, TypeInvInit
<1>3. \A c \in Conn : ~Listed(c) /\ ~Settled(c)
  BY <1>1, NetAssumption DEF Init, L!Init, Listed, Settled, L!IsListed, NetAssumption
<1>4. /\ apc = "idle" /\ handed = {} /\ \A c \in Conn : ~IsOpen(c) /\ sock[c].st = "new"
      /\ \A f \in Fds : ~anfd[f].used
      /\ cbs = [c \in Conn |-> 0]
      /\ known = {} /\ own = {} /\ userData = {} /\ sendq = <<>> /\ todo = <<>> /\ cur = NoConn
      /\ ready \cup batch = {Notify}
      /\ \A h \in Handlers : hcmds[h] = <<>>
  BY <1>1 DEF Init, L!Init, IsOpen
<1>5. AccInv /\ SockInv /\ RegInv /\ AnnouncedOnce /\ CurInv
  BY <1>3, <1>4 DEF AccInv, SockInv, RegInv, AnnouncedOnce, CurInv
<1>6. PastInv /\ TodoInv
  BY <1>4, EmptySeq DEF PastInv, TodoInv, Timer, Notify
<1>. QED BY <1>2, <1>3, <1>4, <1>5, <1>6 DEF LoopInv, Core, NoLostEdge, NoOrphanData

LEMMA LoopNext ==
  ASSUME AddMayFail = FALSE, DistinctPeers PROVE LoopInv /\ [Next]_vars => LoopInv'
<1>1. SUFFICES ASSUME LoopInv, [Next]_vars PROVE LoopInv'
  OBVIOUS
<1>2. Core /\ PastInv /\ TodoInv /\ NoLostEdge /\ NoOrphanData
  BY <1>1 DEF LoopInv
<1>3. Core'
  BY <1>1, <1>2, TypeInvNext, AccNext, SockNext, RegNext, AnnouncedNext, CurNext DEF Core
<1>. QED BY <1>1, <1>2, <1>3, PastNext, TodoNext, EdgeNext, DataNext DEF LoopInv

\* The invariant holds as long as epoll_ctl does not refuse an open descriptor
\* and no peer's ip and port are those of an earlier connection.
LEMMA LoopAlways ==
  ASSUME AddMayFail = FALSE, DistinctPeers PROVE Spec => []LoopInv
<1>1. LoopInv /\ [Next]_vars => LoopInv'
  BY LoopNext
<1>. QED BY <1>1, LoopInit, PTL DEF Spec

\* The table of events, epoll and the list agree whenever a connection is
\* settled (net_thread.h:361-424, 558-576).
THEOREM RegistrationStaysSound ==
  ASSUME AddMayFail = FALSE, DistinctPeers PROVE Spec => []RegistrationSound
<1>1. LoopInv => RegistrationSound
  BY DEF LoopInv, Core, RegInv, SockInv, RegistrationSound, EveryConnectorWatched,
         NoStaleRegistration, Settled, Listed
<1>. QED BY <1>1, LoopAlways, PTL

\* ClosedConnectCB is called once for each connection, and user data is
\* attached to open connections only (epoll_server.h:166-170).
THEOREM CallbacksStayBalanced ==
  ASSUME AddMayFail = FALSE, DistinctPeers PROVE Spec => []CallbacksBalanced
<1>1. LoopInv => CallbacksBalanced
  BY DEF LoopInv, Core, CallbacksBalanced
<1>. QED BY <1>1, LoopAlways, PTL

\* Data that waits in the socket of a watched connection is about to be read,
\* although the edge for it may have come before the descriptor was watched or
\* while its callback ran (net_thread.h:448-520).
THEOREM EdgesNeverLost ==
  ASSUME AddMayFail = FALSE, DistinctPeers PROVE Spec => []NoLostEdge
<1>1. LoopInv => NoLostEdge
  BY DEF LoopInv
<1>. QED BY <1>1, LoopAlways, PTL

\* read_pipe_cb compares the ip and the port (net_thread.h:541-563): a command
\* never acts on a connection that got the id of the one it was issued for,
\* even when registrations fail.
THEOREM CommandsMeetTheirConnection ==
  ASSUME DistinctPeers PROVE Spec => RightTarget
<1>. DEFINE A == \A c \in Conn :
                   \/ cbs'[c] # cbs[c]
                   \/ (c \in answered') # (c \in answered)
                   \/ (c \in left') # (c \in left)
                   \/ (c \in userData') # (c \in userData)
                   => sendq # <<>> /\ Head(sendq).conn = c
<1>1. TypeInv /\ [Next]_vars => [A]_vars
  <2>1. SUFFICES ASSUME TypeInv, [Next]_vars PROVE A
    OBVIOUS
  <2>2. CASE UNCHANGED <<cbs, answered, left, replied, userData>>
    BY <2>2
  <2>3. ASSUME NEW t \in Conn, sendq # <<>>, t = Target(Head(sendq)),
               DoSend(t) \/ DoSetData(t) \/ DoClose(t, Head(sendq))
        PROVE  A
    <3>1. t # NoConn
      BY NetAssumption DEF NetAssumption
    <3>2. t = Head(sendq).conn
      BY <2>1, <2>3, <3>1, TargetOwn
    <3>3. \A c \in Conn : c # t => /\ cbs'[c] = cbs[c]
                                   /\ (c \in answered') = (c \in answered)
                                   /\ (c \in left') = (c \in left)
                                   /\ (c \in userData') = (c \in userData)
      <4>1. cbs \in [Conn -> Nat]
        BY <2>1 DEF TypeInv, TypeOK
      <4>. QED BY <2>3, <4>1 DEF DoSend, DoSetData, DoClose, repv
    <3>. QED BY <2>3, <3>2, <3>3
  <2>. QED BY <2>1, <2>2, <2>3, SeenSteps
<1>. QED BY <1>1, TypeAlways, PTL DEF Spec, RightTarget

-----------------------------------------------------------------------------
(* The assertions of the list.                                             *)

\* add_connector is done with c, whatever came of it.
Through(c) == sock[c].st # "new" /\ ~(c = anew /\ apc # "idle")
AllThrough == {c \in Conn : Through(c)}

\* Nobody but the accepting thread deals with its connection, so that only
\* add_connector takes a connection off the list that it put there.
ListInv ==
  /\ About(AllThrough)
  /\ cur # NoConn => Through(cur)
  /\ npc = "got" => Listed(cur)
  /\ apc \in {"watch", "undo"} => Listed(anew)

\* That holds until read_data finds a connection too early.
FailInv ==
  /\ TypeInv
  /\ Timer \in ready \cup batch => Index = 0
  /\ early \/ (~failed /\ ListInv)

\* What the accepting thread works on.
LEMMA AnewSteps ==
  ASSUME TypeInv, [Next]_vars
  PROVE  \/ anew' = anew /\ (apc = "idle" => apc' = "idle")
         \/ \E c \in Conn : anew' = c /\ sock[c].st = "new"
<1>1. ASSUME NEW c \in Conn, Accept(c) \/ Reject(c)
      PROVE  \/ UNCHANGED <<anew, apc>>
             \/ anew' = c /\ sock[c].st = "new"
  BY <1>1 DEF Accept, Reject, Accepted, NextConn, accv
<1>2. CASE AddToList \/ Watch \/ Undo
  BY <1>2 DEF AddToList, Watch, Undo
<1>3. ASSUME NEW t \in Conn, Closing(t) PROVE UNCHANGED <<anew, apc>>
  BY <1>3 DEF Closing, accv
<1>. QED BY <1>1, <1>2, <1>3, Steps DEF Calm, Leaving

LEMMA ThroughKept ==
  ASSUME TypeInv, [Next]_vars, NEW c \in Conn, Through(c) PROVE Through(c)'
BY AnewSteps, NeverNew DEF Through

\* read_data keeps what it has got until it is done.
LEMMA GotSteps ==
  ASSUME TypeInv, [Next]_vars
  PROVE  /\ cur' = cur \/ cur' = NoConn \/ ReadGet
         /\ npc' = "got" => (npc = "got" /\ cur' = cur) \/ ReadGet
<1>1. CASE NetStep
  BY <1>1 DEF NetStep, EpollWait, OnReadable, OnNotify, OnTimer, ReadNothing, Resume, ReadData,
              ReadEnd, PushOwn, PushedAll, Execute, DrainEnd, Takes, netv, curv
<1>2. CASE AcceptStep \/ Clock \/ UNCHANGED vars
           \/ \E c \in Conn : Accept(c) \/ Reject(c) \/ PeerSends(c) \/ PeerCloses(c)
  BY <1>2 DEF AcceptStep, AddToList, Watch, Undo, Clock, Accept, Reject, PeerSends, PeerCloses,
              vars, netv, curv
<1>3. ASSUME NEW h, HandlerStep(h) \/ \E c, p : Begin(h, c, p) PROVE UNCHANGED <<cur, npc>>
  BY <1>3 DEF HandlerStep, Push, Wake, Begin, netv, curv
<1>. QED BY <1>1, <1>2, <1>3 DEF Next

LEMMA EarlyKept == ASSUME [Next]_vars PROVE (early => early') /\ (early' = early \/ ReadGet)
<1>1. CASE ReadGet
  BY <1>1 DEF ReadGet
<1>2. CASE NetStep /\ ~ReadGet
  BY <1>2 DEF NetStep, EpollWait, OnReadable, OnNotify, OnTimer, ReadNothing, ReadData,
              ReadEnd, PushOwn, Execute, DrainEnd, netv, curv
<1>3. CASE AcceptStep \/ Clock \/ UNCHANGED vars
           \/ \E c \in Conn : Accept(c) \/ Reject(c) \/ PeerSends(c) \/ PeerCloses(c)
  BY <1>3 DEF AcceptStep, AddToList, Watch, Undo, Clock, Accept, Reject, PeerSends, PeerCloses,
              vars, netv, curv
<1>4. ASSUME NEW h, HandlerStep(h) \/ \E c, p : Begin(h, c, p) PROVE early' = early
  BY <1>4 DEF HandlerStep, Push, Wake, Begin, netv, curv
<1>. QED BY <1>1, <1>2, <1>3, <1>4 DEF Next

\* What is in the list, and the assertions: del and refresh are called for a
\* connection that is listed, add for one that is not.
LEMMA ListedSteps ==
  ASSUME TypeInv, ListInv, DistinctPeers, [Next]_vars
  PROVE  /\ \A d \in Conn : Listed(d) => \/ Listed(d)'
                                         \/ apc = "undo" /\ d = anew /\ apc' = "idle"
                                         \/ npc = "drain" /\ Through(d) /\ UNCHANGED npc
         /\ failed' = failed
         /\ apc' \in {"watch", "undo"} => \/ anew' = anew /\ apc \in {"watch", "undo"}
                                          \/ Listed(anew)'
<1>1. TypeOK /\ UseInv
  BY DEF TypeInv
<1>. DEFINE Gone == \A d \in Conn : Listed(d) => Listed(d)'
            Kept == apc' \in {"watch", "undo"} => anew' = anew /\ apc \in {"watch", "undo"}
<1>2. ASSUME UNCHANGED lvars PROVE Gone /\ failed' = failed
  BY <1>2, SameEffect DEF lvars, ListSame
<1>3. CASE AddToList
  <2>1. /\ apc = "list" /\ anew \in Conn /\ anew \in handed /\ L!Add(anew)
        /\ anew' = anew /\ apc' = "watch"
    BY <1>1, <1>3 DEF AddToList, UseInv
  <2>2. PICK a : a = anew
    OBVIOUS
  <2>3. failed' = failed /\ \A d \in Conn : Listed(d)' <=> Listed(d) \/ d = a
    BY <1>1, <2>1, <2>2, AddEffect
  <2>4. Listed(a)'
    BY <2>1, <2>2, <2>3
  <2>5. Listed(anew)'
    BY <2>1, <2>2, <2>4 DEF Listed, L!IsListed
  <2>. QED BY <2>3, <2>5
<1>4. CASE Watch
  BY <1>2, <1>4 DEF Watch
<1>5. CASE Undo
  <2>1. /\ apc = "undo" /\ anew \in Conn /\ Listed(anew) /\ id[anew] \in 1..Total
        /\ L!Del(id[anew]) /\ apc' = "idle"
    BY <1>1, <1>5 DEF Undo, UseInv, ListInv
  <2>2. L!Lookup(id[anew]) = anew /\ anew # NoConn
    BY <1>1, <2>1, ListFacts, NetAssumption DEF NetAssumption
  <2>. QED BY <1>1, <2>1, <2>2, DelEffect
<1>6. ASSUME NEW c \in Conn, Accept(c) \/ Reject(c) PROVE Gone /\ failed' = failed /\ Kept
  <2>1. CASE Accept(c)
    <3>1. L!GetUniqId(c) /\ apc' = "list"
      BY <2>1 DEF Accept
    <3>. QED BY <1>1, <3>1, GetEffect DEF L!GetUniqId
  <2>2. CASE Reject(c)
    BY <1>2, <2>2 DEF Reject, accv
  <2>. QED BY <1>6, <2>1, <2>2
<1>7. CASE ReadData
  <2>1. npc = "got" /\ cur \in Conn /\ Listed(cur) /\ L!Refresh(id[cur]) /\ UNCHANGED accv
    BY <1>1, <1>7 DEF ReadData, UseInv, ListInv
  <2>2. L!Lookup(id[cur]) = cur /\ cur # NoConn
    BY <1>1, <2>1, ListFacts, NetAssumption DEF NetAssumption
  <2>3. ListSame /\ failed' = failed
    BY <2>1, <2>2, RefreshEffect DEF ListSame
  <2>. QED BY <2>1, <2>3, SameEffect DEF accv
<1>8. CASE Execute
  <2>1. PICK x, t : x = Head(sendq) /\ t = Target(x)
    OBVIOUS
  <2>2. UNCHANGED <<accv, npc>> /\ npc = "drain" /\ sendq # <<>>
    BY <1>8 DEF Execute, netv
  <2>3. CASE UNCHANGED lvars
    BY <1>2, <2>2, <2>3 DEF accv
  <2>4. CASE t # NoConn /\ DoClose(t, x)
    <3>1. t \in Conn /\ Listed(t) /\ t = x.conn
      BY <2>1, <2>2, <2>4, TargetOwn
    <3>2. L!Lookup(id[t]) = t /\ id[t] \in 1..Total /\ L!Del(id[t])
      BY <1>1, <2>4, <3>1, ListFacts DEF DoClose
    <3>3. /\ failed' = failed
          /\ \A d \in Conn : Listed(d)' <=> Listed(d) /\ d # t
      BY <1>1, <2>4, <3>1, <3>2, DelEffect
    <3>4. Through(t)
      <4>1. 1 \in 1..Len(sendq) /\ x = sendq[1]
        BY <1>1, <2>1, <2>2, InTail DEF TypeOK
      <4>. QED BY <3>1, <4>1 DEF ListInv, About, AllThrough
    <3>. QED BY <2>2, <3>3, <3>4 DEF accv
  <2>5. UNCHANGED lvars \/ (t # NoConn /\ DoClose(t, x))
    BY <1>8, <2>1 DEF Execute, DoSend, DoSetData
  <2>. QED BY <2>3, <2>4, <2>5
<1>9. CASE OnTimer
  <2>1. ListSame /\ failed' = failed /\ UNCHANGED accv
    BY <1>9 DEF OnTimer, L!CheckTimeout, ListSame, lvars
  <2>. QED BY <2>1, SameEffect DEF accv
<1>10. CASE \/ EpollWait \/ OnNotify \/ ReadNothing \/ ReadGet \/ ReadEnd \/ DrainEnd
            \/ \E f \in batch : OnReadable(f)
            \/ \E x \in own : PushOwn(x)
  <2>1. UNCHANGED lvars /\ UNCHANGED accv
    BY <1>10 DEF EpollWait, OnNotify, ReadNothing, ReadGet, ReadEnd, DrainEnd, OnReadable, PushOwn
  <2>. QED BY <1>2, <2>1 DEF accv
<1>11. ASSUME NEW h, HandlerStep(h) \/ \E c, p : Begin(h, c, p) PROVE Gone /\ failed' = failed /\ Kept
  <2>1. UNCHANGED lvars /\ UNCHANGED accv
    BY <1>11 DEF HandlerStep, Push, Wake, Begin
  <2>. QED BY <1>2, <2>1 DEF accv
<1>12. ASSUME NEW c \in Conn, PeerSends(c) \/ PeerCloses(c) PROVE Gone /\ failed' = failed /\ Kept
  BY <1>2, <1>12 DEF PeerSends, PeerCloses, accv
<1>13. CASE Clock
  <2>1. ListSame /\ failed' = failed /\ UNCHANGED accv
    BY <1>13 DEF Clock, L!Clock, ListSame
  <2>. QED BY <2>1, SameEffect DEF accv
<1>14. CASE UNCHANGED vars
  BY <1>2, <1>14 DEF vars, accv
<1>. QED BY <1>3, <1>4, <1>5, <1>6, <1>7, <1>8, <1>9, <1>10, <1>11, <1>12, <1>13, <1>14
     DEF Next, NetStep, AcceptStep

\* The invariant is kept.
LEMMA FailNext == ASSUME FailInv, DistinctPeers, [Next]_vars PROVE FailInv'
<1>1. TypeInv /\ TypeOK /\ UseInv
  BY DEF FailInv, TypeInv
<1>2. TypeInv'
  BY <1>1, TypeInvNext
<1>3. Timer \in ready' \cup batch' => Index = 0
  BY <1>1, TimerSteps DEF FailInv
<1>4. ASSUME ~early' PROVE ~failed' /\ ListInv'
  <2>1. ~early /\ ~failed /\ ListInv
    BY <1>4, EarlyKept DEF FailInv
  <2>2. PICK P : P = {c \in Conn : Through(c)'}
    OBVIOUS
  <2>3. \A c \in Conn : Through(c) => c \in P
    BY <1>1, <2>2, ThroughKept
  <2>4. About(P)
    BY <2>1, <2>3 DEF ListInv, About, AllThrough
  <2>5. npc = "got" => cur \in P
    BY <1>1, <2>1, <2>3, NetAssumption DEF ListInv, UseInv, NetAssumption
  <2>6. ASSUME Takes(Timer), NEW c \in L!Overdue PROVE c \in P
    <3>1. c \in Conn /\ Listed(c) /\ sock[c].st # "new"
      BY <1>1, OverdueListed DEF TypeInv
    <3>2. apc = "idle"
      BY <2>6 DEF Takes, FailInv, InAccept
    <3>. QED BY <2>3, <3>1, <3>2 DEF Through
  <2>7. About(P)'
    BY <1>1, <2>4, <2>5, <2>6, AboutNext
  <2>8. About(AllThrough)'
    BY <2>2, <2>7 DEF About, AllThrough
  <2>9. ~failed'
    BY <1>1, <2>1, ListedSteps
  <2>10. ASSUME ReadGet
         PROVE  /\ cur' \in Conn /\ Through(cur') /\ Listed(cur')
                /\ npc = "read" /\ UNCHANGED <<lvars, sock, accv>>
    <3>1. PICK c : c = L!Lookup(Head(todo))
      OBVIOUS
    <3>2. /\ c # NoConn /\ cur' = c /\ npc = "read" /\ ~(c = anew /\ apc # "idle")
          /\ UNCHANGED <<lvars, sock, accv>>
      BY <1>4, <2>10, <3>1 DEF ReadGet
    <3>3. c \in Conn /\ Listed(c)
      BY <1>1, <3>1, <3>2, ListFacts
    <3>. QED BY <1>1, <3>2, <3>3 DEF Through, TypeInv
  <2>11. cur' # NoConn => Through(cur)'
    <3>1. PICK c : c = cur'
      OBVIOUS
    <3>2. c # NoConn => c \in Conn /\ Through(c)
      BY <1>1, <2>1, <2>10, <3>1, GotSteps DEF ListInv, TypeOK
    <3>3. c # NoConn => Through(c)'
      BY <1>1, <3>2, ThroughKept
    <3>. QED BY <3>1, <3>3 DEF Through
  <2>12. npc' = "got" => Listed(cur)'
    <3>1. PICK c : c = cur'
      OBVIOUS
    <3>2. CASE ReadGet
      <4>1. Listed(c) /\ vConn' = vConn /\ id' = id
        BY <2>10, <3>1, <3>2 DEF lvars
      <4>. QED BY <3>1, <4>1 DEF Listed, L!IsListed
    <3>3. CASE npc' = "got" /\ npc = "got" /\ cur' = cur
      <4>1. c \in Conn /\ Listed(c) /\ Through(c)
        BY <1>1, <2>1, <3>1, <3>3, NetAssumption DEF ListInv, UseInv, NetAssumption
      <4>2. Listed(c)'
        BY <1>1, <2>1, <3>3, <4>1, ListedSteps DEF Through
      <4>. QED BY <3>1, <4>2 DEF Listed, L!IsListed
    <3>. QED BY <1>1, <3>2, <3>3, GotSteps
  <2>13. apc' \in {"watch", "undo"} => Listed(anew)'
    <3>1. PICK c : c = anew
      OBVIOUS
    <3>2. ASSUME anew' = anew, apc \in {"watch", "undo"}, apc' \in {"watch", "undo"}
          PROVE  Listed(c)'
      <4>1. c \in Conn /\ Listed(c) /\ ~Through(c)
        BY <1>1, <2>1, <3>1, <3>2 DEF ListInv, UseInv, Through
      <4>. QED BY <1>1, <2>1, <3>2, <4>1, ListedSteps
    <3>3. ASSUME anew' = anew, Listed(c)' PROVE Listed(anew)'
      BY <3>1, <3>3 DEF Listed, L!IsListed
    <3>. QED BY <1>1, <2>1, <3>2, <3>3, ListedSteps
  <2>. QED BY <2>8, <2>9, <2>11, <2>12, <2>13 DEF ListInv
<1>. QED BY <1>2, <1>3, <1>4 DEF FailInv

\* "assert" of add, refresh and del (connector_list.cc:79, 93, 170): they hold
\* for any number of connections, commands and peers unless read_data finds a
\* connection that add_connector is not done with, even when registrations
\* fail.
THEOREM AssertionsOfTheList == ASSUME DistinctPeers PROVE Spec => []ListAssertsHold
<1>1. Init => FailInv
  <2>1. SUFFICES ASSUME Init PROVE FailInv
    OBVIOUS
  <2>2. TypeInv
    BY <2>1, TypeInvInit
  <2>3. /\ ready \cup batch = {Notify} /\ known = {} /\ own = {} /\ sendq = <<>>
        /\ cur = NoConn /\ npc = "wait" /\ apc = "idle" /\ \A h \in Handlers : hcmds[h] = <<>>
    BY <2>1 DEF Init
  <2>4. ~failed
    BY <2>1 DEF Init, L!Init
  <2>. QED BY <2>2, <2>3, <2>4, EmptySeq DEF FailInv, ListInv, About, Timer, Notify
<1>2. FailInv /\ [Next]_vars => FailInv'
  BY FailNext
<1>3. FailInv => ListAssertsHold
  BY DEF FailInv, ListAssertsHold
<1>. QED BY <1>1, <1>2, <1>3, PTL DEF Spec

\* While epoll_ctl accepts every open descriptor, read_data never finds such a
\* connection, so that no assertion of the list fails at all.
THEOREM NoAssertionFails ==
  ASSUME AddMayFail = FALSE, DistinctPeers PROVE Spec => []~failed
<1>1. LoopInv /\ ~early /\ [Next]_vars => ~early'
  <2>1. SUFFICES ASSUME LoopInv, ~early, [Next]_vars, ReadGet PROVE ~early'
    BY EarlyKept
  <2>2. PICK c : c = L!Lookup(Head(todo))
    OBVIOUS
  <2>3. npc = "read" /\ early' = (early \/ (c = anew /\ apc # "idle"))
    BY <2>1, <2>2 DEF ReadGet
  <2>4. Settled(c)
    BY <2>1, <2>2, <2>3, ReadSettled DEF LoopInv
  <2>. QED BY <2>1, <2>3, <2>4 DEF Settled
<1>2. Init => ~early
  BY DEF Init
<1>3. ListAssertsHold /\ ~early => ~failed
  BY DEF ListAssertsHold
<1>. QED BY <1>1, <1>2, <1>3, LoopAlways, AssertionsOfTheList, PTL DEF Spec

-----------------------------------------------------------------------------
(* A response comes before the close of its connection.                    *)

\* What may have become of a response.
Met  == answered \cup left \cup dropped
Done(c) == c \in Met \/ sock[c].st = "closed"

\* One of the first n commands of q sends to c.
SendIn(q, n, c) == \E j \in 1..n : q[j].op = "s" /\ q[j].conn = c

EndsReply(x) == x.op = "c" /\ x.reply

\* Before each close that ends a response there is the send, unless it is
\* executed already or the connection is gone.
ReplyInv ==
  /\ \A i \in 1..Len(sendq) :
       EndsReply(sendq[i]) => \/ Done(sendq[i].conn)
                              \/ SendIn(sendq, i - 1, sendq[i].conn)
  /\ \A h \in Handlers : \A i \in 1..Len(hcmds[h]) :
       EndsReply(hcmds[h][i]) => \/ Done(hcmds[h][i].conn)
                                 \/ SendIn(sendq, Len(sendq), hcmds[h][i].conn)
                                 \/ SendIn(hcmds[h], i - 1, hcmds[h][i].conn)
  /\ \A x \in own : ~x.reply
  /\ replied \subseteq Met

\* What was written, kept or dropped stays so.
LEMMA MetKept ==
  ASSUME TypeInv, [Next]_vars PROVE Met \subseteq Met'
<1>1. CASE \/ EpollWait \/ OnNotify \/ OnTimer \/ ReadNothing \/ ReadGet \/ ReadData
           \/ ReadEnd \/ DrainEnd
           \/ \E f \in batch : OnReadable(f)
           \/ \E x \in own : PushOwn(x)
  BY <1>1 DEF EpollWait, OnNotify, OnTimer, ReadNothing, ReadGet, ReadData, ReadEnd, DrainEnd,
              OnReadable, PushOwn, seen, repv, Met
<1>2. CASE Execute
  <2>1. /\ dropped' = dropped /\ answered \subseteq answered'
        /\ left \subseteq left' \cup answered'
    <3>1. UNCHANGED repv \/ \E t : DoSend(t) \/ DoSetData(t) \/ DoClose(t, Head(sendq))
      BY <1>2 DEF Execute
    <3>2. dropped' = dropped
      BY <1>2 DEF Execute
    <3>. QED BY <3>1, <3>2 DEF DoSend, DoSetData, DoClose, repv
  <2>. QED BY <2>1 DEF Met
<1>3. CASE AcceptStep \/ Clock \/ UNCHANGED vars
           \/ \E c \in Conn : Accept(c) \/ Reject(c) \/ PeerSends(c) \/ PeerCloses(c)
  BY <1>3 DEF AcceptStep, AddToList, Watch, Undo, Clock, Accept, Reject, PeerSends, PeerCloses,
              vars, seen, repv, Met
<1>4. ASSUME NEW h \in Handlers, HandlerStep(h) \/ \E c, p : Begin(h, c, p)
      PROVE  UNCHANGED repv /\ dropped \subseteq dropped'
  BY <1>4 DEF HandlerStep, Push, Enqueue, Refuse, Wake, Begin, seen, repv
<1>5. ASSUME NEW h \in Handlers, HandlerStep(h) \/ \E c, p : Begin(h, c, p)
      PROVE  Met \subseteq Met'
  BY <1>4, <1>5 DEF Met, repv
<1>. QED BY <1>1, <1>2, <1>3, <1>5 DEF Next, NetStep

\* A connection that has met its answer or is closed stays so.
LEMMA DoneKept ==
  ASSUME Core, PastInv, AddMayFail = FALSE, DistinctPeers, [Next]_vars, NEW c \in Conn, Done(c)
  PROVE  Done(c)'
<1>1. Met \subseteq Met'
  BY MetKept DEF Core
<1>2. ASSUME sock[c].st = "closed" PROVE sock'[c].st = "closed"
  <2>1. CASE Calm
    BY <1>2, <2>1 DEF Calm
  <2>2. ASSUME NEW d \in Conn, Accept(d) \/ Reject(d) PROVE sock'[c].st = "closed"
    BY <1>2, <2>2, AcceptEffect
  <2>3. CASE AddToList \/ Watch
    BY <1>2, <2>3, AddToListEffect, WatchEffect
  <2>4. ASSUME NEW t \in Conn, Closing(t) PROVE sock'[c].st = "closed"
    BY <1>2, <2>4, CloseEffect
  <2>. QED BY <2>1, <2>2, <2>3, <2>4, CoreSteps
<1>. QED BY <1>1, <1>2 DEF Done

\* The steps, by what they do to the commands.
LEMMA ReplySteps ==
  ASSUME TypeInv, [Next]_vars
  PROVE  \/ UNCHANGED <<sendq, hcmds>>
         \/ Execute /\ sendq # <<>> /\ sendq' = Tail(sendq) /\ hcmds' = hcmds
         \/ \E x \in own : sendq' = Append(sendq, x) /\ hcmds' = hcmds
         \/ \E h \in Handlers : /\ hcmds[h] # <<>>
                                /\ sendq' = Append(sendq, Head(hcmds[h]))
                                /\ hcmds' = [hcmds EXCEPT ![h] = Tail(@)]
         \/ \E h \in Handlers : /\ hcmds[h] # <<>> /\ sendq' = sendq
                                /\ hcmds' = [hcmds EXCEPT ![h] = Tail(@)]
                                /\ Head(hcmds[h]).op # "c"
                                /\ Head(hcmds[h]).op = "s" => Head(hcmds[h]).conn \in dropped'
         \/ \E h \in Handlers, c \in known, p \in Programs :
              /\ sendq' = sendq
              /\ hcmds' = [hcmds EXCEPT ![h] =
                             [i \in 1..Len(p) |->
                                [op |-> p[i], conn |-> c, reply |-> p = <<"s", "c">>]]]
<1>1. CASE \/ EpollWait \/ OnNotify \/ ReadNothing \/ ReadGet \/ DrainEnd \/ Execute
           \/ \E f \in batch : OnReadable(f)
           \/ \E x \in own : PushOwn(x)
  BY <1>1 DEF EpollWait, OnNotify, ReadNothing, ReadGet, DrainEnd, Execute, OnReadable, PushOwn,
              netv, hanv
<1>2. CASE OnTimer \/ ReadData \/ ReadEnd
  BY <1>2 DEF OnTimer, ReadData, ReadEnd, hanv
<1>3. CASE AcceptStep \/ Clock \/ UNCHANGED vars
           \/ \E c \in Conn : Accept(c) \/ Reject(c) \/ PeerSends(c) \/ PeerCloses(c)
  BY <1>3 DEF AcceptStep, AddToList, Watch, Undo, Clock, Accept, Reject, PeerSends, PeerCloses,
              vars, hanv
<1>4. ASSUME NEW h \in Handlers, NEW c \in known, NEW p \in Programs, Begin(h, c, p)
      PROVE  /\ sendq' = sendq
             /\ hcmds' = [hcmds EXCEPT ![h] =
                            [i \in 1..Len(p) |->
                               [op |-> p[i], conn |-> c, reply |-> p = <<"s", "c">>]]]
  BY <1>4 DEF Begin
<1>5. ASSUME NEW h \in Handlers, HandlerStep(h)
      PROVE  \/ UNCHANGED <<sendq, hcmds>>
             \/ /\ hcmds[h] # <<>>
                /\ sendq' = Append(sendq, Head(hcmds[h]))
                /\ hcmds' = [hcmds EXCEPT ![h] = Tail(@)]
             \/ /\ hcmds[h] # <<>> /\ sendq' = sendq
                /\ hcmds' = [hcmds EXCEPT ![h] = Tail(@)]
                /\ Head(hcmds[h]).op # "c"
                /\ Head(hcmds[h]).op = "s" => Head(hcmds[h]).conn \in dropped'
  <2>1. CASE Wake(h)
    BY <2>1 DEF Wake
  <2>2. CASE Push(h)
    <3>1. PICK x : x = Head(hcmds[h])
      OBVIOUS
    <3>2. hcmds[h] # <<>> /\ hcmds' = [hcmds EXCEPT ![h] = Tail(@)]
      BY <2>2 DEF Push, Pushes, Pushed
    <3>3. Enqueue(x) \/ (x.op # "c" /\ Refuse(x))
      BY <2>2, <3>1 DEF Push
    <3>4. CASE Enqueue(x)
      BY <3>1, <3>2, <3>4 DEF Enqueue
    <3>5. CASE x.op # "c" /\ Refuse(x)
      <4>1. x.op = "s" => x.conn \in dropped'
        BY <3>5 DEF Refuse
      <4>2. sendq' = sendq
        BY <3>5 DEF Refuse
      <4>. QED BY <3>1, <3>2, <3>5, <4>1, <4>2
    <3>. QED BY <3>3, <3>4, <3>5
  <2>. QED BY <1>5, <2>1, <2>2 DEF HandlerStep
<1>. QED BY <1>1, <1>2, <1>3, <1>4, <1>5 DEF Next, NetStep

\* A send that leaves the queue was written or kept, or met nobody.
LEMMA SendDone ==
  ASSUME Core, PastInv, AddMayFail = FALSE, DistinctPeers, [Next]_vars,
         Execute, sendq # <<>>, NEW c \in Conn, sendq[1].op = "s", sendq[1].conn = c
  PROVE  Done(c)'
<1>1. Head(sendq) = sendq[1] /\ 1 \in 1..Len(sendq)
  BY CoreTypes, InTail DEF TypeOK
<1>2. Past(c)
  BY <1>1 DEF PastInv
<1>3. CASE Done(c)
  BY <1>3, DoneKept
<1>4. CASE Settled(c)
  <2>1. L!Lookup(id[c]) = c
    BY <1>4, CoreTypes, ListFacts DEF Settled, Listed
  <2>2. Target(Head(sendq)) = c /\ c # NoConn
    BY <1>1, <2>1, NetAssumption DEF Target, NetAssumption
  <2>3. DoSend(c)
    BY <1>1, <2>2 DEF Execute
  <2>. QED BY <2>3 DEF DoSend, Done, Met
<1>. QED BY <1>2, <1>3, <1>4 DEF Past, Done

\* The sends of a queue that got one more command, or lost its first.
LEMMA SendAppend ==
  ASSUME NEW q \in Seq(Command), NEW x \in Command, NEW c
  PROVE  /\ \A n \in 0..Len(q) : SendIn(q, n, c) => SendIn(Append(q, x), n, c)
         /\ SendIn(q, Len(q), c) \/ (x.op = "s" /\ x.conn = c)
              => SendIn(Append(q, x), Len(Append(q, x)), c)
<1>1. /\ Len(q) \in Nat /\ Len(Append(q, x)) = Len(q) + 1
      /\ Append(q, x)[Len(q) + 1] = x /\ \A i \in 1..Len(q) : Append(q, x)[i] = q[i]
  BY AppendProperties, LenProperties
<1>. QED BY <1>1 DEF SendIn

LEMMA SendTail ==
  ASSUME NEW q \in Seq(Command), q # <<>>, NEW n \in 1..Len(q), NEW c, SendIn(q, n, c)
  PROVE  SendIn(Tail(q), n - 1, c) \/ (q[1].op = "s" /\ q[1].conn = c)
<1>1. /\ Len(q) \in Nat /\ Len(Tail(q)) = Len(q) - 1
      /\ \A i \in 1..Len(Tail(q)) : Tail(q)[i] = q[i + 1]
  BY InTail
<1>2. PICK j \in 1..n : q[j].op = "s" /\ q[j].conn = c
  BY DEF SendIn
<1>3. CASE j # 1
  <2>1. j - 1 \in 1..(n - 1) /\ Tail(q)[j - 1] = q[j]
    BY <1>1, <1>3
  <2>. QED BY <1>2, <2>1 DEF SendIn
<1>. QED BY <1>2, <1>3

LEMMA ReplyNext ==
  ASSUME AddMayFail = FALSE, DistinctPeers, LoopInv, ReplyInv, [Next]_vars
  PROVE  ReplyInv'
<1>0. PICK D : D = {c \in Conn : Done(c)'}
  OBVIOUS
<1>1. /\ Core /\ PastInv /\ TypeInv
      /\ own \subseteq Command /\ known \subseteq Conn
      /\ sendq \in Seq(Command) /\ hcmds \in [Handlers -> Seq(Command)]
  BY DEF LoopInv, Core, TypeInv, TypeOK
<1>2. \A c \in Conn : Done(c) => c \in D
  BY <1>0, <1>1, DoneKept
<1>3. replied' \subseteq Met'
  <2>1. ASSUME NEW t \in Conn, DoClose(t, Head(sendq)), Closing(t), Head(sendq).reply
        PROVE  t \in Met
    <3>1. IsOpen(t) /\ Head(sendq).conn = t /\ Head(sendq).op = "c" /\ sendq # <<>>
      BY <1>1, <2>1, CloseEffect DEF Closing
    <3>2. 1 \in 1..Len(sendq) /\ Head(sendq) = sendq[1]
      BY <1>1, <3>1, InTail
    <3>3. Done(t) \/ SendIn(sendq, 0, t)
      BY <2>1, <3>1, <3>2 DEF ReplyInv, EndsReply
    <3>. QED BY <3>1, <3>3 DEF Done, IsOpen, SendIn
  <2>2. replied' \subseteq Met
    BY <1>1, <2>1, SeenSteps DEF ReplyInv, DoSend, DoSetData, DoClose, repv
  <2>. QED BY <1>1, <2>2, MetKept
<1>4. \A x \in own' : ~x.reply
  BY <1>1, CommandSteps DEF ReplyInv, Close
<1>5. ASSUME NEW i \in 1..Len(sendq), EndsReply(sendq[i])
      PROVE  sendq[i].conn \in D \/ SendIn(sendq, i - 1, sendq[i].conn)
  <2>1. sendq[i] \in Command
    BY <1>1, LenProperties
  <2>. QED BY <1>2, <1>5, <2>1 DEF ReplyInv, Command
<1>6. ASSUME NEW h \in Handlers, NEW i \in 1..Len(hcmds[h]), EndsReply(hcmds[h][i])
      PROVE  /\ hcmds[h][i].conn \in Conn
             /\ \/ hcmds[h][i].conn \in D
                \/ SendIn(sendq, Len(sendq), hcmds[h][i].conn)
                \/ SendIn(hcmds[h], i - 1, hcmds[h][i].conn)
  <2>1. hcmds[h] \in Seq(Command)
    BY <1>1
  <2>2. hcmds[h][i] \in Command
    BY <2>1, LenProperties
  <2>. QED BY <1>2, <1>6, <2>2 DEF ReplyInv, Command
<1>. DEFINE A == \A i \in 1..Len(sendq') : EndsReply(sendq'[i]) =>
                   sendq'[i].conn \in D \/ SendIn(sendq', i - 1, sendq'[i].conn)
            B == \A h \in Handlers : \A i \in 1..Len(hcmds'[h]) : EndsReply(hcmds'[h][i]) =>
                   \/ hcmds'[h][i].conn \in D
                   \/ SendIn(sendq', Len(sendq'), hcmds'[h][i].conn)
                   \/ SendIn(hcmds'[h], i - 1, hcmds'[h][i].conn)
<1>7. ASSUME UNCHANGED <<sendq, hcmds>> PROVE A /\ B
  BY <1>5, <1>6, <1>7
<1>8. ASSUME Execute, sendq # <<>>, sendq' = Tail(sendq), hcmds' = hcmds PROVE A /\ B
  <2>1. /\ Len(sendq) \in Nat /\ Len(sendq') = Len(sendq) - 1
        /\ \A i \in 1..Len(sendq') : i + 1 \in 1..Len(sendq) /\ sendq'[i] = sendq[i + 1]
    BY <1>1, <1>8, InTail
  <2>2. ASSUME NEW c \in Conn, NEW n \in 1..Len(sendq), SendIn(sendq, n, c)
        PROVE  c \in D \/ SendIn(sendq', n - 1, c)
    BY <1>0, <1>1, <1>8, <2>2, SendTail, SendDone
  <2>3. A
    <3>1. SUFFICES ASSUME NEW i \in 1..Len(sendq'), EndsReply(sendq'[i])
                   PROVE  sendq'[i].conn \in D \/ SendIn(sendq', i - 1, sendq'[i].conn)
      OBVIOUS
    <3>2. PICK x : x = sendq[i + 1]
      OBVIOUS
    <3>3. x \in Command /\ i + 1 \in 1..Len(sendq) /\ sendq'[i] = x
      BY <1>1, <2>1, <3>2, LenProperties
    <3>4. x.conn \in Conn /\ (x.conn \in D \/ SendIn(sendq, i, x.conn))
      BY <1>5, <3>1, <3>2, <3>3 DEF Command
    <3>5. i \in 1..Len(sendq)
      BY <2>1
    <3>. QED BY <2>2, <3>3, <3>4, <3>5
  <2>4. B
    <3>1. SUFFICES ASSUME NEW h \in Handlers, NEW i \in 1..Len(hcmds[h]), EndsReply(hcmds[h][i])
                   PROVE  \/ hcmds[h][i].conn \in D
                          \/ SendIn(sendq', Len(sendq'), hcmds[h][i].conn)
                          \/ SendIn(hcmds[h], i - 1, hcmds[h][i].conn)
      BY <1>8
    <3>2. Len(sendq) \in 1..Len(sendq)
      BY <1>1, <1>8, EmptySeq
    <3>. QED BY <1>6, <2>1, <2>2, <3>1, <3>2
  <2>. QED BY <2>3, <2>4
<1>9. ASSUME NEW x \in Command, sendq' = Append(sendq, x)
      PROVE  /\ \A i \in 1..Len(sendq') : \/ sendq'[i] = x /\ i = Len(sendq) + 1
                                          \/ i \in 1..Len(sendq) /\ sendq'[i] = sendq[i]
             /\ \A c : /\ \A n \in 0..Len(sendq) : SendIn(sendq, n, c) => SendIn(sendq', n, c)
                       /\ SendIn(sendq, Len(sendq), c) \/ (x.op = "s" /\ x.conn = c)
                            => SendIn(sendq', Len(sendq'), c)
             /\ Len(sendq) \in Nat
  <2>1. \A i \in 1..Len(sendq') : \/ sendq'[i] = x /\ i = Len(sendq) + 1
                                  \/ i \in 1..Len(sendq) /\ sendq'[i] = sendq[i]
    BY <1>1, <1>9, InAppend
  <2>2. ASSUME NEW c
        PROVE  /\ \A n \in 0..Len(sendq) : SendIn(sendq, n, c) => SendIn(sendq', n, c)
               /\ SendIn(sendq, Len(sendq), c) \/ (x.op = "s" /\ x.conn = c)
                    => SendIn(sendq', Len(sendq'), c)
    BY <1>1, <1>9, SendAppend
  <2>. QED BY <1>1, <2>1, <2>2, LenProperties
<1>10. ASSUME NEW x \in Command, sendq' = Append(sendq, x),
              EndsReply(x) => x.conn \in D \/ SendIn(sendq, Len(sendq), x.conn)
       PROVE  A
  <2>1. SUFFICES ASSUME NEW i \in 1..Len(sendq'), EndsReply(sendq'[i])
                 PROVE  sendq'[i].conn \in D \/ SendIn(sendq', i - 1, sendq'[i].conn)
    OBVIOUS
  <2>2. CASE sendq'[i] = x /\ i = Len(sendq) + 1
    <3>1. i - 1 = Len(sendq) /\ Len(sendq) \in 0..Len(sendq)
      BY <1>9, <1>10, <2>2
    <3>. QED BY <1>9, <1>10, <2>1, <2>2, <3>1
  <2>3. CASE i \in 1..Len(sendq) /\ sendq'[i] = sendq[i]
    <3>1. i - 1 \in 0..Len(sendq)
      BY <1>9, <1>10, <2>3
    <3>. QED BY <1>5, <1>9, <1>10, <2>1, <2>3, <3>1
  <2>. QED BY <1>9, <1>10, <2>2, <2>3
<1>11. ASSUME NEW x \in own, sendq' = Append(sendq, x), hcmds' = hcmds PROVE A /\ B
  <2>1. x \in Command /\ ~EndsReply(x)
    BY <1>1 DEF ReplyInv, EndsReply
  <2>. QED BY <1>6, <1>9, <1>10, <1>11, <2>1
<1>12. ASSUME NEW h \in Handlers, hcmds[h] # <<>>, hcmds' = [hcmds EXCEPT ![h] = Tail(@)],
              \/ sendq' = Append(sendq, Head(hcmds[h]))
              \/ /\ sendq' = sendq /\ Head(hcmds[h]).op # "c"
                 /\ Head(hcmds[h]).op = "s" => Head(hcmds[h]).conn \in dropped'
       PROVE  A /\ B
  <2>0. PICK x, q : x = Head(hcmds[h]) /\ q = hcmds[h]
    OBVIOUS
  <2>1. /\ q \in Seq(Command) /\ q # <<>> /\ x = q[1] /\ 1 \in 1..Len(q) /\ Len(q) \in Nat
        /\ Len(Tail(q)) = Len(q) - 1
        /\ \A i \in 1..Len(Tail(q)) : i + 1 \in 1..Len(q) /\ Tail(q)[i] = q[i + 1]
    BY <1>1, <1>12, <2>0, InTail
  <2>2. x \in Command
    BY <2>1, LenProperties
  <2>9. sendq' = Append(sendq, x) \/ (sendq' = sendq /\ (x.op = "s" => x.conn \in D))
    <3>1. CASE sendq' = sendq /\ (x.op = "s" => x.conn \in dropped')
      BY <1>0, <2>2, <3>1 DEF Done, Met, Command
    <3>. QED BY <1>12, <2>0, <3>1
  <2>8. ASSUME NEW c
        PROVE  /\ SendIn(sendq, Len(sendq), c) => SendIn(sendq', Len(sendq'), c)
               /\ x.op = "s" /\ x.conn = c => c \in D \/ SendIn(sendq', Len(sendq'), c)
    BY <1>9, <2>2, <2>9
  <2>3. EndsReply(x) => x.conn \in D \/ SendIn(sendq, Len(sendq), x.conn)
    BY <1>6, <2>0, <2>1 DEF SendIn
  <2>4. A
    BY <1>5, <1>10, <2>2, <2>3, <2>9
  <2>5. ASSUME NEW g \in Handlers, g # h, NEW i \in 1..Len(hcmds'[g]), EndsReply(hcmds'[g][i])
        PROVE  \/ hcmds'[g][i].conn \in D
               \/ SendIn(sendq', Len(sendq'), hcmds'[g][i].conn)
               \/ SendIn(hcmds'[g], i - 1, hcmds'[g][i].conn)
    <3>1. hcmds'[g] = hcmds[g]
      BY <1>1, <1>12, <2>5
    <3>2. PICK c : c = hcmds[g][i].conn
      OBVIOUS
    <3>3. c \in D \/ SendIn(sendq, Len(sendq), c) \/ SendIn(hcmds[g], i - 1, c)
      BY <1>6, <2>5, <3>1, <3>2
    <3>4. SendIn(sendq, Len(sendq), c) => SendIn(sendq', Len(sendq'), c)
      BY <2>8
    <3>. QED BY <3>1, <3>2, <3>3, <3>4
  <2>6. ASSUME NEW i \in 1..Len(Tail(q)), EndsReply(Tail(q)[i])
        PROVE  \/ Tail(q)[i].conn \in D
               \/ SendIn(sendq', Len(sendq'), Tail(q)[i].conn)
               \/ SendIn(Tail(q), i - 1, Tail(q)[i].conn)
    <3>1. PICK c : c = q[i + 1].conn
      OBVIOUS
    <3>2. \/ c \in D
          \/ SendIn(sendq, Len(sendq), c)
          \/ SendIn(q, i, c)
      BY <1>6, <2>0, <2>1, <2>6, <3>1
    <3>3. i \in 1..Len(q)
      BY <2>1
    <3>4. SendIn(q, i, c) => SendIn(Tail(q), i - 1, c) \/ (x.op = "s" /\ x.conn = c)
      BY <2>1, <3>3, SendTail
    <3>5. c \in D \/ SendIn(sendq', Len(sendq'), c) \/ SendIn(Tail(q), i - 1, c)
      BY <2>8, <3>2, <3>4
    <3>. QED BY <2>1, <2>6, <3>1, <3>5
  <2>7. hcmds'[h] = Tail(q)
    BY <1>1, <1>12, <2>0
  <2>. QED BY <2>4, <2>5, <2>6, <2>7
<1>13. ASSUME NEW h \in Handlers, NEW c \in known, NEW p \in Programs, sendq' = sendq,
              hcmds' = [hcmds EXCEPT ![h] =
                          [i \in 1..Len(p) |->
                             [op |-> p[i], conn |-> c, reply |-> p = <<"s", "c">>]]]
       PROVE  A /\ B
  <2>1. A
    BY <1>5, <1>13
  <2>2. ASSUME NEW g \in Handlers, g # h, NEW i \in 1..Len(hcmds'[g]), EndsReply(hcmds'[g][i])
        PROVE  \/ hcmds'[g][i].conn \in D
               \/ SendIn(sendq', Len(sendq'), hcmds'[g][i].conn)
               \/ SendIn(hcmds'[g], i - 1, hcmds'[g][i].conn)
    <3>1. hcmds'[g] = hcmds[g]
      BY <1>1, <1>13, <2>2
    <3>. QED BY <1>6, <1>13, <2>2, <3>1
  <2>3. ASSUME NEW i \in 1..Len(hcmds'[h]), EndsReply(hcmds'[h][i])
        PROVE  SendIn(hcmds'[h], i - 1, hcmds'[h][i].conn)
    <3>1. PICK s : s = [j \in 1..Len(p) |->
                          [op |-> p[j], conn |-> c, reply |-> p = <<"s", "c">>]]
      OBVIOUS
    <3>2. hcmds'[h] = s /\ Len(p) \in Nat
      BY <1>1, <1>13, <3>1, NetAssumption, LenProperties DEF NetAssumption
    <3>3. Len(s) = Len(p) /\ \A j \in 1..Len(p) : /\ s[j].op = p[j] /\ s[j].conn = c
                                                  /\ s[j].reply = (p = <<"s", "c">>)
      BY <3>1, <3>2
    <3>4. p = <<"s", "c">> /\ i \in 1..Len(p) /\ p[i] = "c"
      BY <2>3, <3>2, <3>3 DEF EndsReply
    <3>5. i = 2 /\ Len(p) = 2 /\ p[1] = "s"
      BY <3>4
    <3>6. 1 \in 1..(i - 1) /\ s[1].op = "s" /\ s[1].conn = s[i].conn
      BY <3>3, <3>4, <3>5
    <3>. QED BY <3>2, <3>6 DEF SendIn
  <2>. QED BY <2>1, <2>2, <2>3
<1>14. A /\ B
  BY <1>1, <1>7, <1>8, <1>11, <1>12, <1>13, ReplySteps
<1>. QED BY <1>0, <1>3, <1>4, <1>14 DEF ReplyInv

LEMMA ReplyInit == Init => ReplyInv
<1>1. SUFFICES ASSUME Init PROVE ReplyInv
  OBVIOUS
<1>2. sendq = <<>> /\ own = {} /\ replied = {} /\ \A h \in Handlers : hcmds[h] = <<>>
  BY <1>1 DEF Init
<1>. QED BY <1>2, EmptySeq DEF ReplyInv

\* "as both are put into one queue, the close certainly comes after the send"
\* (http_server.cc:153): however full the queue and however little the sockets
\* take, no connection is closed at the end of a response that was not written,
\* kept in out_buf or refused by the queue before.
THEOREM AnswersComeFirst ==
  ASSUME AddMayFail = FALSE, DistinctPeers
  PROVE  Spec => []AnsweredBeforeClosed
<1>1. LoopInv /\ ReplyInv /\ [Next]_vars => ReplyInv'
  BY ReplyNext
<1>2. ReplyInv => AnsweredBeforeClosed
  BY DEF ReplyInv, AnsweredBeforeClosed, Met
<1>. QED BY <1>1, <1>2, ReplyInit, LoopAlways, PTL DEF Spec
==============================================================================
