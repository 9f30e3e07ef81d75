------------------------- MODULE ConnectorListProofs -------------------------
(***************************************************************************)
(* Proofs about ConnectorList for any number of connections, any size of   *)
(* the list and any clock.                                                 *)
(***************************************************************************)
EXTENDS ConnectorList, SequenceTheorems, TLAPS

-----------------------------------------------------------------------------
(* Lemmas about the free list.                                             *)

\* pop_front takes out the first slot and no other.
LEMMA PopFront ==
  ASSUME NEW q \in Seq(Slots), q # <<>>, NoRepeat(q)
  PROVE  /\ Head(q) \in Slots /\ Holds(q, Head(q))
         /\ Tail(q) \in Seq(Slots) /\ NoRepeat(Tail(q))
         /\ \A s : Holds(Tail(q), s) <=> Holds(q, s) /\ s # Head(q)
<1>1. /\ Head(q) \in Slots /\ Tail(q) \in Seq(Slots)
      /\ Len(Tail(q)) = Len(q) - 1
      /\ \A i \in 1..Len(Tail(q)) : Tail(q)[i] = q[i + 1]
  BY HeadTailProperties
<1>2. Len(q) \in Nat \ {0} /\ Head(q) = q[1]
  BY EmptySeq
<1>3. Holds(q, Head(q))
  BY <1>2 DEF Holds
<1>4. NoRepeat(Tail(q))
  BY <1>1, <1>2 DEF NoRepeat
<1>5. ASSUME NEW s
      PROVE  Holds(Tail(q), s) <=> Holds(q, s) /\ s # Head(q)
  <2>1. ASSUME Holds(Tail(q), s) PROVE Holds(q, s) /\ s # Head(q)
    <3>1. PICK i \in 1..Len(Tail(q)) : Tail(q)[i] = s
      BY <2>1 DEF Holds
    <3>2. i + 1 \in 1..Len(q) /\ 1 \in 1..Len(q) /\ q[i + 1] = s /\ i + 1 # 1
      BY <1>1, <1>2, <3>1
    <3>3. QED
      BY <1>2, <3>2 DEF Holds, NoRepeat
  <2>2. ASSUME Holds(q, s), s # Head(q) PROVE Holds(Tail(q), s)
    <3>1. PICK i \in 1..Len(q) : q[i] = s
      BY <2>2 DEF Holds
    <3>2. i # 1
      BY <1>2, <2>2, <3>1
    <3>3. i - 1 \in 1..Len(Tail(q)) /\ Tail(q)[i - 1] = s
      BY <1>1, <1>2, <3>1, <3>2
    <3>4. QED
      BY <3>3 DEF Holds
  <2>3. QED
    BY <2>1, <2>2
<1>6. QED
  BY <1>1, <1>3, <1>4, <1>5

\* push_back puts in one slot and no other.
LEMMA PushBack ==
  ASSUME NEW q \in Seq(Slots), NEW e \in Slots
  PROVE  /\ Append(q, e) \in Seq(Slots)
         /\ \A s : Holds(Append(q, e), s) <=> Holds(q, s) \/ s = e
         /\ NoRepeat(q) /\ ~Holds(q, e) => NoRepeat(Append(q, e))
<1> DEFINE r == Append(q, e)
<1>1. /\ r \in Seq(Slots)
      /\ Len(r) = Len(q) + 1
      /\ \A i \in 1..Len(q) : r[i] = q[i]
      /\ r[Len(q) + 1] = e
  BY AppendProperties
<1>2. Len(q) \in Nat
  OBVIOUS
<1>3. \A i \in 1..Len(r) : i \in 1..Len(q) \/ i = Len(q) + 1
  BY <1>1, <1>2
<1> HIDE DEF r
<1>4. \A s : Holds(r, s) <=> Holds(q, s) \/ s = e
  BY <1>1, <1>2, <1>3 DEF Holds
<1>5. ASSUME NoRepeat(q), ~Holds(q, e) PROVE NoRepeat(r)
  <2>1. \A i \in 1..Len(q) : r[i] # e
    BY <1>1, <1>5 DEF Holds
  <2>2. QED
    BY <1>1, <1>2, <1>3, <1>5, <2>1 DEF NoRepeat
<1>6. QED
  BY <1>1, <1>4, <1>5 DEF r

\* The free list after init().
LEMMA InitialFree ==
  LET q == [i \in Slots |-> i]
  IN q \in Seq(Slots) /\ NoRepeat(q) /\ \A s \in Slots : Holds(q, s)
<1> DEFINE q == [i \in Slots |-> i]
<1>1. q \in [1..Total -> Slots]
  BY DEF Slots
<1>2. q \in Seq(Slots) /\ Len(q) = Total
  BY <1>1, ListAssumption DEF ListAssumption
<1>3. \A i \in 1..Len(q) : i \in Slots /\ q[i] = i
  BY <1>2 DEF Slots
<1>4. \A s \in Slots : s \in 1..Len(q) /\ q[s] = s
  BY <1>2 DEF Slots
<1> HIDE DEF q
<1>5. NoRepeat(q) /\ \A s \in Slots : Holds(q, s)
  BY <1>3, <1>4 DEF NoRepeat, Holds
<1>6. QED
  BY <1>2, <1>5 DEF q

-----------------------------------------------------------------------------
(* Types.                                                                  *)

\* Every variable has its type at the start.
LEMMA TypeInit == Init => TypeOK
<1>1. SUFFICES ASSUME Init PROVE TypeOK
  OBVIOUS
<1>2. free \in Seq(Slots)
  BY <1>1, InitialFree DEF Init
<1>3. lastRefresh \in [Conn -> Int] /\ memory \in [Conn -> Int]
  BY <1>1, ListAssumption DEF Init, ListAssumption
<1>4. QED
  BY <1>1, <1>2, <1>3, ListAssumption DEF Init, TypeOK, ListAssumption

\* An assertion that fails changes nothing else.
LEMMA AbortType == TypeOK /\ Abort => TypeOK'
BY DEF TypeOK, Abort

\* The connection found under an id.
LEMMA LookupType ==
  ASSUME TypeOK, NEW s, Lookup(s) # NoConn
  PROVE  s \in Slots /\ Lookup(s) = vConn[s] /\ vConn[s] \in Conn
BY DEF TypeOK, Lookup

\* Every step keeps the types.
LEMMA TypeNext == TypeOK /\ [Next]_lvars => TypeOK'
<1>1. SUFFICES ASSUME TypeOK, [Next]_lvars, ~Abort PROVE TypeOK'
  BY AbortType
<1> USE <1>1 DEF TypeOK
<1>2. ASSUME NEW c \in Conn, GetUniqId(c) PROVE TypeOK'
  <2>1. Head(free) \in Slots /\ Tail(free) \in Seq(Slots)
    BY <1>2, HeadTailProperties DEF GetUniqId, Unset
  <2>2. QED
    BY <1>2, <2>1 DEF GetUniqId
<1>3. ASSUME NEW c \in Conn, Add(c) PROVE TypeOK'
  <2>1. now + Keep \in Nat
    BY ListAssumption DEF ListAssumption
  <2>2. /\ id[c] \in Slots /\ vConn' = [vConn EXCEPT ![id[c]] = c]
        /\ where' = [where EXCEPT ![id[c]] = now + Keep]
        /\ tl' = tl \cup {<<now + Keep, id[c]>>}
    BY <1>3 DEF Add
  <2>3. vConn' \in [Slots -> Conn \cup {NoConn}]
    BY <2>2
  <2>4. where' \in [Slots -> Nat] /\ tl' \subseteq Nat \X Slots
    BY <2>1, <2>2
  <2>5. handed' \subseteq Conn /\ active' \in [Conn -> Nat]
    BY <1>3 DEF Add
  <2>6. QED
    BY <1>3, <2>3, <2>4, <2>5 DEF Add
<1>4. ASSUME NEW s \in Slots, Refresh(s) PROVE TypeOK'
  <2>1. now + Keep \in Nat /\ Lookup(s) \in Conn
    BY <1>4, LookupType, ListAssumption DEF Refresh, ListAssumption
  <2>2. active' \in [Conn -> Nat]
    BY <1>4 DEF Refresh
  <2>3. CASE UNCHANGED <<lastRefresh, where, tl>>
    BY <1>4, <2>2, <2>3 DEF Refresh
  <2>4. CASE /\ lastRefresh' = [lastRefresh EXCEPT ![Lookup(s)] = now + Keep]
             /\ where' = [where EXCEPT ![s] = now + Keep]
             /\ tl' = (tl \ {<<where[s], s>>}) \cup {<<now + Keep, s>>}
    <3>1. lastRefresh' \in [Conn -> Int] /\ where' \in [Slots -> Nat]
      BY <2>1, <2>4
    <3>2. tl' \subseteq Nat \X Slots
      BY <2>1, <2>4
    <3>3. QED
      BY <1>4, <2>2, <3>1, <3>2 DEF Refresh
  <2>5. QED
    BY <1>4, <2>3, <2>4 DEF Refresh
<1>5. ASSUME NEW s \in Slots, Del(s) PROVE TypeOK'
  <2>1. Append(free, s) \in Seq(Slots)
    BY AppendProperties
  <2>2. QED
    BY <1>5, <2>1 DEF Del
<1>6. ASSUME CheckTimeout PROVE TypeOK'
  <2>1. Overdue \subseteq Conn \cup {NoConn}
    BY DEF Overdue
  <2>2. QED
    BY <1>6, <2>1 DEF CheckTimeout
<1>7. CASE Clock
  BY <1>7 DEF Clock
<1>8. CASE UNCHANGED lvars
  BY <1>8 DEF lvars
<1>9. QED
  BY <1>1, <1>2, <1>3, <1>4, <1>5, <1>6, <1>7, <1>8 DEF Next

-----------------------------------------------------------------------------
(* Ids and slots.                                                          *)

\* All that is needed of the two invariants together.
SlotInv == TypeOK /\ IdsUnique /\ NoSlotLost

\* They hold of the list that init() makes.
LEMMA SlotInit == Init => SlotInv
<1>1. SUFFICES ASSUME Init PROVE SlotInv
  OBVIOUS
<1>2. NoRepeat(free) /\ \A s \in Slots : Holds(free, s)
  BY <1>1, InitialFree DEF Init
<1>3. IdsUnique
  BY <1>1, <1>2 DEF Init, IdsUnique
<1>4. NoSlotLost
  BY <1>2 DEF NoSlotLost
<1>5. QED
  BY <1>1, <1>3, <1>4, TypeInit DEF SlotInv

\* getUniqId moves a slot from the free list to a connection.
LEMMA SlotGet ==
  ASSUME SlotInv, NEW c \in Conn, GetUniqId(c)
  PROVE  IdsUnique' /\ NoSlotLost'
<1> DEFINE h == Head(free)
<1>1. /\ h \in Slots /\ Holds(free, h)
      /\ free' \in Seq(Slots) /\ NoRepeat(free')
      /\ \A s : Holds(free', s) <=> Holds(free, s) /\ s # h
  BY PopFront DEF SlotInv, TypeOK, IdsUnique, GetUniqId, Unset
<1>2. /\ id' = [id EXCEPT ![c] = h] /\ handed' = handed \cup {c}
      /\ vConn' = vConn /\ vConn[h] = NoConn
      /\ id \in [Conn -> {0} \cup Slots] /\ handed \subseteq Conn
      /\ vConn \in [Slots -> Conn \cup {NoConn}]
  BY <1>1 DEF GetUniqId, SlotInv, TypeOK, IdsUnique
<1>3. c \notin handed /\ \A s \in Slots : vConn[s] # c
  <2>1. id[c] = 0 /\ 0 \notin Slots /\ NoConn \notin Conn
    BY ListAssumption DEF GetUniqId, Unset, Slots, ListAssumption
  <2>2. QED
    BY <2>1 DEF SlotInv, IdsUnique
<1> HIDE DEF h
<1>4. id'[c] = h /\ \A d \in Conn : d # c => id'[d] = id[d]
  BY <1>2
<1>5. \A s \in Slots : Holds(free', s) => vConn'[s] = NoConn
  BY <1>1, <1>2 DEF SlotInv, IdsUnique
<1>6. \A d \in handed' : /\ id'[d] \in Slots
                         /\ vConn'[id'[d]] = NoConn
                         /\ ~Holds(free', id'[d])
  BY <1>1, <1>2, <1>3, <1>4 DEF SlotInv, IdsUnique
<1>7. \A d, e \in handed' : id'[d] = id'[e] => d = e
  <2>1. \A d \in handed : id'[d] # h
    BY <1>1, <1>2, <1>3, <1>4 DEF SlotInv, IdsUnique
  <2>2. QED
    BY <1>2, <1>3, <1>4, <2>1 DEF SlotInv, IdsUnique
<1>8. \A s \in Slots : vConn'[s] # NoConn =>
        id'[vConn'[s]] = s /\ vConn'[s] \notin handed'
  BY <1>2, <1>3, <1>4 DEF SlotInv, IdsUnique
<1>9. NoSlotLost'
  <2>1. SUFFICES ASSUME NEW s \in Slots
                 PROVE  \/ Holds(free', s)
                        \/ vConn'[s] # NoConn
                        \/ \E d \in handed' : id'[d] = s
    BY DEF NoSlotLost
  <2>2. CASE s = h
    BY <1>2, <1>4, <2>2
  <2>3. CASE s # h
    BY <1>1, <1>2, <1>3, <1>4, <2>3 DEF SlotInv, NoSlotLost
  <2>4. QED
    BY <2>2, <2>3
<1>10. QED
  BY <1>1, <1>5, <1>6, <1>7, <1>8, <1>9 DEF IdsUnique

\* add moves a slot from a connection to the list.
LEMMA SlotAdd ==
  ASSUME SlotInv, NEW c \in handed, Add(c), ~Abort
  PROVE  IdsUnique' /\ NoSlotLost'
<1> c \in Conn
  BY DEF SlotInv, TypeOK
<1>1. /\ c \in handed /\ id[c] \in Slots /\ vConn[id[c]] = NoConn
      /\ ~Holds(free, id[c])
      /\ vConn' = [vConn EXCEPT ![id[c]] = c]
      /\ handed' = handed \ {c} /\ id' = id /\ free' = free
      /\ vConn \in [Slots -> Conn \cup {NoConn}]
  BY DEF Add, SlotInv, TypeOK, IdsUnique
<1>2. vConn'[id[c]] = c /\ \A s \in Slots : s # id[c] => vConn'[s] = vConn[s]
  BY <1>1
<1>3. \A d \in handed' : id[d] # id[c]
  BY <1>1 DEF SlotInv, IdsUnique
<1>4. IdsUnique'
  BY <1>1, <1>2, <1>3, ListAssumption
  DEF SlotInv, IdsUnique, ListAssumption
<1>5. NoSlotLost'
  BY <1>1, <1>2, ListAssumption DEF SlotInv, NoSlotLost, ListAssumption
<1>6. QED
  BY <1>4, <1>5

\* del moves a slot from the list to the end of the free list.
LEMMA SlotDel ==
  ASSUME SlotInv, NEW s \in Slots, Del(s), ~Abort
  PROVE  IdsUnique' /\ NoSlotLost'
<1>1. /\ vConn[s] \in Conn /\ vConn[s] # NoConn
      /\ vConn' = [vConn EXCEPT ![s] = NoConn]
      /\ handed' = handed /\ id' = id
      /\ free \in Seq(Slots) /\ free' = Append(free, s)
      /\ vConn \in [Slots -> Conn \cup {NoConn}]
  BY LookupType DEF Del, SlotInv, TypeOK
<1>2. ~Holds(free, s)
  BY <1>1 DEF SlotInv, IdsUnique
<1>3. /\ NoRepeat(free')
      /\ \A r : Holds(free', r) <=> Holds(free, r) \/ r = s
  BY <1>1, <1>2, PushBack DEF SlotInv, IdsUnique
<1>4. vConn'[s] = NoConn /\ \A r \in Slots : r # s => vConn'[r] = vConn[r]
  BY <1>1
<1>5. \A d \in handed : id[d] # s
  BY <1>1 DEF SlotInv, IdsUnique
<1>6. IdsUnique'
  BY <1>1, <1>3, <1>4, <1>5 DEF SlotInv, IdsUnique
<1>7. NoSlotLost'
  BY <1>1, <1>3, <1>4 DEF SlotInv, NoSlotLost
<1>8. QED
  BY <1>6, <1>7

\* Every step keeps the two invariants.
LEMMA SlotNext == SlotInv /\ [Next]_lvars => SlotInv'
<1>1. SUFFICES ASSUME SlotInv, [Next]_lvars PROVE SlotInv'
  OBVIOUS
<1>2. TypeOK'
  BY <1>1, TypeNext DEF SlotInv
<1>a. CASE Abort
  <2>1. UNCHANGED <<free, vConn, id, handed>> /\ IdsUnique /\ NoSlotLost
    BY <1>1, <1>a DEF Abort, SlotInv
  <2>2. IdsUnique'
    BY <2>1 DEF IdsUnique
  <2>3. NoSlotLost'
    BY <2>1 DEF NoSlotLost
  <2>4. QED
    BY <1>2, <2>2, <2>3 DEF SlotInv
<1>3. ASSUME NEW s \in Slots, Refresh(s), ~Abort PROVE IdsUnique' /\ NoSlotLost'
  BY <1>1, <1>3 DEF Refresh, SlotInv, IdsUnique, NoSlotLost
<1>4. CASE CheckTimeout \/ Clock \/ UNCHANGED lvars
  BY <1>1, <1>2, <1>4
  DEF CheckTimeout, Clock, lvars, SlotInv, IdsUnique, NoSlotLost
<1>5. QED
  BY <1>1, <1>2, <1>a, <1>3, <1>4, SlotGet, SlotAdd, SlotDel DEF Next, SlotInv

\* The slot invariants hold in every behaviour.
LEMMA SlotAlways == Spec => []SlotInv
BY SlotInit, SlotNext, PTL DEF Spec

\* The types of the variables (every operation of the class keeps them).
THEOREM TypeCorrect == Spec => []TypeOK
<1>1. SlotInv => TypeOK
  BY DEF SlotInv
<1>2. QED
  BY <1>1, SlotAlways, PTL

\* getUniqId never hands out an id that is in use, whatever the order of
\* getUniqId, add and del.
THEOREM IdsAreUnique == Spec => []IdsUnique
<1>1. SlotInv => IdsUnique
  BY DEF SlotInv
<1>2. QED
  BY <1>1, SlotAlways, PTL

\* No order of getUniqId, add and del loses a slot.
THEOREM SlotsAreKept == Spec => []NoSlotLost
<1>1. SlotInv => NoSlotLost
  BY DEF SlotInv
<1>2. QED
  BY <1>1, SlotAlways, PTL

-----------------------------------------------------------------------------
(* The time list.                                                          *)

\* What TimeListExact needs to be inductive.
TimeInv == SlotInv /\ TimeListExact

\* The slots in use.
Listed == {s \in Slots : vConn[s] # NoConn}

\* The list and the time list start empty.
LEMMA TimeInit == Init => TimeListExact
BY DEF Init, TimeListExact

\* Every step keeps the time list exact.
LEMMA TimeNext == TimeInv /\ [Next]_lvars => TimeListExact'
<1>1. SUFFICES ASSUME TimeInv, [Next]_lvars PROVE TimeListExact'
  OBVIOUS
<1>2. /\ vConn \in [Slots -> Conn \cup {NoConn}]
      /\ where \in [Slots -> Nat] /\ NoConn \notin Conn
      /\ tl = {<<where[s], s>> : s \in Listed}
  BY <1>1, ListAssumption
  DEF TimeInv, SlotInv, TypeOK, TimeListExact, Listed, ListAssumption
<1>3. SUFFICES tl' = {<<where'[s], s>> : s \in Listed'}
  BY DEF TimeListExact, Listed
<1>4. ASSUME NEW c \in Conn, Add(c), ~Abort
      PROVE  tl' = {<<where'[s], s>> : s \in Listed'}
  <2>1. /\ id[c] \in Slots /\ vConn[id[c]] = NoConn
        /\ vConn' = [vConn EXCEPT ![id[c]] = c]
        /\ where' = [where EXCEPT ![id[c]] = now + Keep]
        /\ tl' = tl \cup {<<now + Keep, id[c]>>}
    BY <1>4 DEF Add, Lookup
  <2>2. Listed' = Listed \cup {id[c]} /\ id[c] \notin Listed
    BY <1>2, <2>1 DEF Listed
  <2>3. where'[id[c]] = now + Keep
        /\ \A s \in Listed : s \in Slots /\ where'[s] = where[s]
    BY <1>2, <2>1, <2>2 DEF Listed
  <2>4. QED
    BY <1>2, <2>1, <2>2, <2>3
<1>5. ASSUME NEW s \in Slots, Refresh(s), ~Abort
      PROVE  tl' = {<<where'[r], r>> : r \in Listed'}
  <2>1. vConn' = vConn /\ Listed' = Listed /\ s \in Listed
    BY <1>2, <1>5 DEF Refresh, Listed, Lookup
  <2>2. CASE UNCHANGED <<where, tl>>
    BY <1>2, <2>1, <2>2
  <2>3. CASE /\ where' = [where EXCEPT ![s] = now + Keep]
             /\ tl' = (tl \ {<<where[s], s>>}) \cup {<<now + Keep, s>>}
    <3>1. where'[s] = now + Keep
          /\ \A r \in Listed : r \in Slots /\ (r # s => where'[r] = where[r])
      BY <1>2, <2>1, <2>3 DEF Listed
    <3>2. tl \ {<<where[s], s>>} = {<<where[r], r>> : r \in Listed \ {s}}
      BY <1>2, <2>1
    <3>3. QED
      BY <2>1, <2>3, <3>1, <3>2
  <2>4. QED
    BY <1>5, <2>2, <2>3 DEF Refresh
<1>6. ASSUME NEW s \in Slots, Del(s), ~Abort
      PROVE  tl' = {<<where'[r], r>> : r \in Listed'}
  <2>1. /\ where' = where
        /\ vConn' = [vConn EXCEPT ![s] = NoConn]
        /\ tl' = tl \ {<<where[s], s>>}
    BY <1>6 DEF Del
  <2>2. Listed' = Listed \ {s}
    BY <1>2, <2>1 DEF Listed
  <2>3. QED
    BY <1>2, <2>1, <2>2
<1>7. ASSUME UNCHANGED <<tl, where, vConn>>
      PROVE  tl' = {<<where'[s], s>> : s \in Listed'}
  BY <1>2, <1>7 DEF Listed
<1>8. QED
  BY <1>1, <1>4, <1>5, <1>6, <1>7
  DEF Next, GetUniqId, CheckTimeout, Clock, lvars, Abort

\* The time list has one entry for each listed connection, and the stored
\* iterator of each connection is its entry.
THEOREM TimeListIsExact == Spec => []TimeListExact
<1>1. TimeInv /\ [Next]_lvars => TimeInv'
  BY SlotNext, TimeNext DEF TimeInv
<1>2. Init => TimeInv
  BY SlotInit, TimeInit DEF TimeInv
<1>3. TimeInv => TimeListExact
  BY DEF TimeInv
<1>4. QED
  BY <1>1, <1>2, <1>3, PTL DEF Spec

-----------------------------------------------------------------------------
(* Timeouts.                                                               *)

\* The time of the entry of c is its last activity plus its timeout, or the
\* memory of the Connector held a later time and refresh kept away from it.
TimeRight(c, t) == t = active[c] + Keep \/ memory[c] >= active[c] + Keep

\* lastRefreshTime is what the memory held until the first refresh that sets
\* it, and the time of the last refresh from then on.
IdleInv ==
  /\ TimeInv
  /\ \A c \in Conn : id[c] = 0 \/ c \in handed => lastRefresh[c] = memory[c]
  /\ \A c \in Conn : lastRefresh[c] \in {memory[c], active[c] + Keep}
  /\ \A s \in Slots : vConn[s] # NoConn => TimeRight(vConn[s], where[s])
  /\ \A c \in Conn : active[c] <= now

\* It holds at the start.
LEMMA IdleInit == Init => IdleInv
<1>1. SUFFICES ASSUME Init PROVE IdleInv
  OBVIOUS
<1>2. TimeInv
  BY <1>1, SlotInit, TimeInit DEF TimeInv
<1>3. /\ now = 0 /\ active = [c \in Conn |-> 0]
      /\ vConn = [s \in Slots |-> NoConn] /\ lastRefresh = memory
  BY <1>1 DEF Init
<1>4. \A c \in Conn : active[c] <= now
  <2>1. \A c \in Conn : active[c] = now
    BY <1>3
  <2>2. now <= now
    BY <1>3
  <2>3. QED
    BY <2>1, <2>2
<1>5. \A s \in Slots : vConn[s] = NoConn
  BY <1>3
<1>6. QED
  BY <1>2, <1>3, <1>4, <1>5 DEF IdleInv

\* Every step keeps it.  Refresh leaves the entry alone only when it has the
\* right time already or the memory held a time that is not before it.
LEMMA IdleNext == IdleInv /\ [Next]_lvars => IdleInv'
<1>1. SUFFICES ASSUME IdleInv, [Next]_lvars PROVE IdleInv'
  OBVIOUS
<1>2. TimeInv'
  BY <1>1, SlotNext, TimeNext DEF IdleInv, TimeInv
<1>3. /\ now \in Nat /\ Keep \in Nat \ {0} /\ NoConn \notin Conn
      /\ vConn \in [Slots -> Conn \cup {NoConn}]
      /\ where \in [Slots -> Nat] /\ active \in [Conn -> Nat]
      /\ lastRefresh \in [Conn -> Int] /\ memory \in [Conn -> Int]
      /\ \A s \in Slots : vConn[s] # NoConn => id[vConn[s]] = s
  BY <1>1, ListAssumption
  DEF IdleInv, TimeInv, SlotInv, TypeOK, IdsUnique, ListAssumption
<1>4. ASSUME NEW c \in handed, Add(c), ~Abort PROVE IdleInv'
  <2>1. c \in Conn /\ id[c] \in Slots /\ \A s \in Slots : vConn[s] # c
    BY <1>1, <1>3, <1>4 DEF IdleInv, TimeInv, SlotInv, IdsUnique, TypeOK
  <2>2. /\ vConn' = [vConn EXCEPT ![id[c]] = c]
        /\ where' = [where EXCEPT ![id[c]] = now + Keep]
        /\ active' = [active EXCEPT ![c] = now]
        /\ lastRefresh' = lastRefresh /\ now' = now /\ id' = id
        /\ handed' = handed \ {c} /\ memory' = memory
    BY <1>4 DEF Add
  <2>3. active'[c] = now /\ \A d \in Conn : d # c => active'[d] = active[d]
    BY <1>3, <2>1, <2>2
  <2>4. \A s \in Slots : vConn'[s] # NoConn => TimeRight(vConn[s], where[s])' \/ s = id[c]
    BY <1>1, <1>3, <2>1, <2>2, <2>3 DEF IdleInv, TimeRight
  <2>5. vConn'[id[c]] = c /\ where'[id[c]] = active'[c] + Keep
    BY <1>3, <2>1, <2>2, <2>3
  <2>6. lastRefresh[c] = memory[c]
    BY <1>1, <1>4, <2>1 DEF IdleInv
  <2>7. \A d \in Conn : lastRefresh'[d] \in {memory'[d], active'[d] + Keep}
    BY <1>1, <2>2, <2>3, <2>6 DEF IdleInv
  <2>8. \A d \in Conn : active'[d] <= now'
    BY <1>1, <1>3, <2>2, <2>3 DEF IdleInv
  <2>9. QED
    BY <1>1, <1>2, <2>2, <2>4, <2>5, <2>7, <2>8 DEF IdleInv, TimeRight
<1>5. ASSUME NEW s \in Slots, Refresh(s), ~Abort PROVE IdleInv'
  <2>0. PICK c \in Conn : c = Lookup(s)
    BY <1>3, <1>5 DEF Refresh, Lookup
  <2>1. /\ c \in Conn /\ c # NoConn /\ vConn[s] = c /\ vConn' = vConn
        /\ active' = [active EXCEPT ![c] = now] /\ now' = now
        /\ id' = id /\ handed' = handed /\ memory' = memory
    BY <1>3, <1>5, <2>0 DEF Refresh, Lookup
  <2>2. active'[c] = now /\ \A d \in Conn : d # c => active'[d] = active[d]
    BY <1>3, <2>1
  <2>3. /\ id[c] = s /\ id[c] # 0 /\ c \notin handed
        /\ \A r \in Slots : r # s => vConn[r] # c
    BY <1>1, <1>3, <2>1 DEF Slots, IdleInv, TimeInv, SlotInv, IdsUnique
  <2>4. /\ TimeRight(c, where[s])' /\ lastRefresh'[c] \in {memory[c], now + Keep}
        /\ \A r \in Slots : r # s => where'[r] = where[r]
        /\ \A d \in Conn : d # c => lastRefresh'[d] = lastRefresh[d]
    <3>1. CASE now + Keep - lastRefresh[c] < 1
      <4>1. lastRefresh[c] \in {memory[c], active[c] + Keep} /\ active[c] <= now
        BY <1>1, <2>1 DEF IdleInv
      <4>2. where' = where /\ lastRefresh' = lastRefresh
        BY <1>3, <1>5, <2>0, <2>1, <3>1 DEF Refresh
      <4>3. TimeRight(c, where[s])
        BY <1>1, <2>1, <1>3 DEF IdleInv
      <4>4. memory[c] >= now + Keep \/ (lastRefresh[c] = active[c] + Keep /\ active[c] = now)
        BY <1>3, <2>1, <3>1, <4>1
      <4>5. TimeRight(c, where[s])'
        BY <1>3, <2>1, <2>2, <4>2, <4>3, <4>4 DEF TimeRight
      <4>6. lastRefresh'[c] \in {memory[c], now + Keep}
        BY <4>1, <4>2, <4>4, <1>3, <2>1, <3>1
      <4>7. QED
        BY <4>2, <4>5, <4>6
    <3>2. CASE ~(now + Keep - lastRefresh[c] < 1)
      <4>1. /\ lastRefresh' = [lastRefresh EXCEPT ![c] = now + Keep]
            /\ where' = [where EXCEPT ![s] = now + Keep]
        BY <1>3, <1>5, <2>0, <2>1, <3>2 DEF Refresh
      <4>2. where'[s] = now + Keep /\ lastRefresh'[c] = now + Keep
        BY <1>3, <2>1, <4>1
      <4>3. QED
        BY <1>3, <2>2, <4>1, <4>2 DEF TimeRight
    <3>3. QED
      BY <3>1, <3>2
  <2>5. \A d \in Conn : lastRefresh'[d] \in {memory'[d], active'[d] + Keep}
    BY <1>1, <2>1, <2>2, <2>4 DEF IdleInv
  <2>6. \A r \in Slots : vConn'[r] # NoConn => TimeRight(vConn[r], where[r])'
    BY <1>1, <1>3, <2>1, <2>2, <2>3, <2>4 DEF IdleInv, TimeRight
  <2>7. \A d \in Conn : active'[d] <= now'
    BY <1>1, <1>3, <2>1, <2>2 DEF IdleInv
  <2>8. \A d \in Conn : id'[d] = 0 \/ d \in handed' => lastRefresh'[d] = memory'[d]
    BY <1>1, <2>1, <2>3, <2>4 DEF IdleInv
  <2>9. QED
    BY <1>2, <2>5, <2>6, <2>7, <2>8 DEF IdleInv
<1>6. ASSUME NEW s \in Slots, Del(s), ~Abort PROVE IdleInv'
  BY <1>1, <1>2, <1>3, <1>6 DEF Del, IdleInv, TimeRight
<1>7. CASE Clock
  BY <1>1, <1>2, <1>3, <1>7 DEF Clock, IdleInv, TimeRight
<1>8. ASSUME NEW c \in Conn, GetUniqId(c) PROVE IdleInv'
  BY <1>1, <1>2, <1>3, <1>8
  DEF GetUniqId, Unset, IdleInv, TimeInv, SlotInv, TypeOK, TimeRight
<1>9. CASE CheckTimeout \/ Abort \/ UNCHANGED lvars
  BY <1>1, <1>2, <1>9 DEF CheckTimeout, Abort, lvars, IdleInv, TimeRight
<1>10. QED
  BY <1>1, <1>4, <1>5, <1>6, <1>7, <1>8, <1>9 DEF Next

\* A step that marks a connection finds it idle for its whole timeout, or
\* its entry kept old by what the memory held.
LEMMA IdleStep ==
  IdleInv /\ [Next]_lvars =>
    \A c \in timedOut' \ timedOut :
      active[c] + Keep <= now \/ memory[c] >= active[c] + Keep
<1>1. SUFFICES ASSUME IdleInv, [Next]_lvars, NEW c \in timedOut' \ timedOut
               PROVE  active[c] + Keep <= now \/ memory[c] >= active[c] + Keep
  OBVIOUS
<1>2. CheckTimeout
  BY <1>1 DEF Next, GetUniqId, Add, Refresh, Del, Clock, lvars, Abort
<1>3. c \in Overdue
  BY <1>1, <1>2 DEF CheckTimeout
<1>4. PICK e \in tl : e[1] <= now /\ vConn[e[2]] = c
  BY <1>3 DEF Overdue
<1>5. PICK s \in Slots : vConn[s] # NoConn /\ e = <<where[s], s>>
  BY <1>1 DEF IdleInv, TimeInv, TimeListExact
<1>6. where[s] <= now /\ vConn[s] = c
  BY <1>4, <1>5
<1>7. TimeRight(c, where[s])
  BY <1>1, <1>5, <1>6 DEF IdleInv
<1>8. QED
  BY <1>6, <1>7 DEF TimeRight

\* No connection times out before its time, whatever refresh and checkTimeout
\* are called for and when, but for a Connector whose memory held a time that
\* is not before the one its last refresh stood for (connector.cc:21-45 and
\* connector_list.cc:96).
THEOREM NoEarlyTimeout == Spec => TimedOutWereIdle
<1>1. IdleInv /\ [Next]_lvars =>
        [\A c \in timedOut' \ timedOut :
           active[c] + Keep <= now \/ memory[c] >= active[c] + Keep]_lvars
  BY IdleStep
<1>2. QED
  BY <1>1, IdleInit, IdleNext, PTL DEF Spec, TimedOutWereIdle
=============================================================================
