---------------------------- MODULE ConnectorList ----------------------------
(***************************************************************************)
(* net/connector_list.cc: the connections of one network thread, found by  *)
(* the id that getUniqId handed out, and a list of the times at which they *)
(* time out.                                                               *)
(*                                                                         *)
(* Every function holds list_mutex from its first access to its last       *)
(* (checkTimeout also while the callbacks run), so each is one action.     *)
(* The assertions of add, refresh and del are conditions of the actions,   *)
(* not guards: where one does not hold the call is made all the same, and  *)
(* the program ends there (failed).                                        *)
(*                                                                         *)
(* An id is its slot 1..Total; the magic number in its high bits, which is *)
(* the same for all ids of one list, is left out.                          *)
(***************************************************************************)
EXTENDS Integers, Sequences

CONSTANTS Conn,      \* the connections of one run, each added at most once
          NoConn,    \* a null pointer
          Total,     \* _total
          Keep,      \* Connector::getTimeout(), in ticks of the clock
          MaxTime,   \* bound on the clock
          Uninit,    \* what lastRefreshTime may hold in a new Connector
          Exempt     \* connections whose listen fd is -1

ASSUME ListAssumption ==
  /\ NoConn \notin Conn
  /\ Total \in Nat
  /\ Keep \in Nat \ {0}
  /\ MaxTime \in Nat
  /\ Uninit \subseteq Int
  /\ Exempt \subseteq Conn

VARIABLES now,          \* the clock (TNOW)
          free,         \* _free
          vConn,        \* _vConn[slot].first
          where,        \* _vConn[slot].second: the time of the slot's entry
          tl,           \* _tl, a set of <<time, slot>>
          lastCheck,    \* _lastTimeoutTime
          id,           \* Connector::id, 0 before it is set
          lastRefresh,  \* Connector::lastRefreshTime
          timedOut,     \* connections with is_timeout set
          handed,       \* connections that have an id and are not added yet
          active,       \* when each connection was added or last refreshed
          memory,       \* what lastRefreshTime held in each new Connector
          failed        \* has an assertion of the list failed?

lvars == <<now, free, vConn, where, tl, lastCheck, id, lastRefresh, timedOut,
           handed, active, memory, failed>>

Slots == 1..Total

IsListed(c) == \E s \in Slots : vConn[s] = c
Holds(q, s) == \E i \in 1..Len(q) : q[i] = s
NoRepeat(q) == \A i, j \in 1..Len(q) : q[i] = q[j] => i = j

\* Variant: init() fills the free list from 0.
InitFromZero ==
  /\ now = 0
  /\ free = [i \in Slots |-> i - 1]
  /\ vConn = [s \in Slots |-> NoConn]
  /\ where = [s \in Slots |-> 0]
  /\ tl = {} /\ lastCheck = 0
  /\ id = [c \in Conn |-> 0]
  /\ memory \in [Conn -> Uninit] /\ lastRefresh = memory
  /\ timedOut = {} /\ handed = {}
  /\ active = [c \in Conn |-> 0]
  /\ failed = FALSE

\* init(): every slot is free, in order.  No constructor of Connector sets
\* lastRefreshTime: it holds what the memory held.
Init == /\ now = 0
        /\ free = [i \in Slots |-> i]
        /\ vConn = [s \in Slots |-> NoConn]
        /\ where = [s \in Slots |-> 0]
        /\ tl = {}
        /\ lastCheck = 0
        /\ id = [c \in Conn |-> 0]
        /\ memory \in [Conn -> Uninit]
        /\ lastRefresh = memory
        /\ timedOut = {}
        /\ handed = {}
        /\ active = [c \in Conn |-> 0]
        /\ failed = FALSE

-----------------------------------------------------------------------------
\* The id of a connection that is not set yet is set once.
Unset(c) == ~failed /\ id[c] = 0 /\ free # <<>>

\* Variant: getUniqId reads the front of the free list and leaves it there.
GetUniqIdPeeks(c) ==
  /\ Unset(c)
  /\ id' = [id EXCEPT ![c] = Head(free)]
  /\ handed' = handed \cup {c}
  /\ UNCHANGED <<now, free, vConn, where, tl, lastCheck, lastRefresh, timedOut,
                 active, memory, failed>>

\* getUniqId and setId for a new connection c.
GetUniqId(c) ==
  /\ Unset(c)
  /\ id' = [id EXCEPT ![c] = Head(free)]
  /\ free' = Tail(free)
  /\ handed' = handed \cup {c}
  /\ UNCHANGED <<now, vConn, where, tl, lastCheck, lastRefresh, timedOut,
                 active, memory, failed>>

\* get(uid)
Lookup(s) == IF s \in Slots THEN vConn[s] ELSE NoConn

\* An assertion fails: the call changes nothing and the program ends.
Abort ==
  /\ failed' = TRUE
  /\ UNCHANGED <<now, free, vConn, where, tl, lastCheck, id, lastRefresh,
                 timedOut, handed, active, memory>>

\* add(conn, timeout + TNOW)
Add(c) ==
  LET s == id[c] IN
  /\ ~failed
  /\ \/ ~(s \in Slots /\ Lookup(s) = NoConn) /\ Abort
     \/ /\ s \in Slots /\ Lookup(s) = NoConn
        /\ vConn' = [vConn EXCEPT ![s] = c]
        /\ where' = [where EXCEPT ![s] = now + Keep]
        /\ tl' = tl \cup {<<now + Keep, s>>}
        /\ handed' = handed \ {c}
        /\ active' = [active EXCEPT ![c] = now]
        /\ UNCHANGED <<now, free, lastCheck, id, lastRefresh, timedOut, memory,
                       failed>>

\* Variant: refresh inserts the new entry and leaves the old one.
RefreshKeepsOld(s) ==
  /\ ~failed
  /\ \/ Lookup(s) = NoConn /\ Abort
     \/ /\ Lookup(s) # NoConn
        /\ active' = [active EXCEPT ![vConn[s]] = now]
        /\ where' = [where EXCEPT ![s] = now + Keep]
        /\ tl' = tl \cup {<<now + Keep, s>>}
        /\ UNCHANGED <<now, free, vConn, lastCheck, id, lastRefresh, timedOut,
                       handed, memory, failed>>

\* refresh(uid, timeout + TNOW)
Refresh(s) ==
  LET c     == Lookup(s)
      stamp == now + Keep
  IN /\ ~failed
     /\ \/ c = NoConn /\ Abort
        \/ /\ c # NoConn
           /\ active' = [active EXCEPT ![c] = now]
           /\ \/ /\ stamp - lastRefresh[c] < 1
                 /\ UNCHANGED <<lastRefresh, where, tl>>
              \/ /\ stamp - lastRefresh[c] >= 1
                 /\ lastRefresh' = [lastRefresh EXCEPT ![c] = stamp]
                 /\ where' = [where EXCEPT ![s] = stamp]
                 /\ tl' = (tl \ {<<where[s], s>>}) \cup {<<stamp, s>>}
           /\ UNCHANGED <<now, free, vConn, lastCheck, id, timedOut, handed,
                          memory, failed>>

\* Variant: checkTimeout goes one entry of time too far.
OverdueEarly == {vConn[e[2]] : e \in {x \in tl : x[1] <= now + 1}} \ Exempt

\* What checkTimeout calls set_timeout for.
Overdue == {vConn[e[2]] : e \in {x \in tl : x[1] <= now}} \ Exempt

\* checkTimeout(TNOW), when the last check is a tick or more ago; the
\* entries stay in the list.
CheckTimeout ==
  /\ ~failed
  /\ now - lastCheck >= 1
  /\ lastCheck' = now
  /\ timedOut' = timedOut \cup Overdue
  /\ UNCHANGED <<now, free, vConn, where, tl, id, lastRefresh, handed, active,
                 memory, failed>>

\* Variant: _del does not give the slot back.
DelLeaks(s) ==
  /\ ~failed
  /\ \/ Lookup(s) = NoConn /\ Abort
     \/ /\ Lookup(s) # NoConn
        /\ tl' = tl \ {<<where[s], s>>}
        /\ vConn' = [vConn EXCEPT ![s] = NoConn]
        /\ UNCHANGED <<now, free, where, lastCheck, id, lastRefresh, timedOut,
                       handed, active, memory, failed>>

\* del(uid)
Del(s) ==
  /\ ~failed
  /\ \/ Lookup(s) = NoConn /\ Abort
     \/ /\ Lookup(s) # NoConn
        /\ tl' = tl \ {<<where[s], s>>}
        /\ vConn' = [vConn EXCEPT ![s] = NoConn]
        /\ free' = Append(free, s)
        /\ UNCHANGED <<now, where, lastCheck, id, lastRefresh, timedOut,
                       handed, active, memory, failed>>

\* The clock, external to the class.
Clock ==
  /\ ~failed
  /\ now < MaxTime
  /\ now' = now + 1
  /\ UNCHANGED <<free, vConn, where, tl, lastCheck, id, lastRefresh, timedOut,
                 handed, active, memory, failed>>

\* A connection is added once, with the id it was given; refresh and del may
\* come with any id that was handed out, at any time.
Next == \/ \E c \in Conn : \/ GetUniqId(c)
                           \/ c \in handed /\ Add(c)
        \/ \E s \in Slots : \/ Refresh(s)
                            \/ Del(s)
        \/ CheckTimeout
        \/ Clock

Spec == Init /\ [][Next]_lvars

-----------------------------------------------------------------------------
(* Properties.                                                             *)

\* Every variable has its type.
TypeOK == /\ now \in Nat
          /\ free \in Seq(Slots)
          /\ vConn \in [Slots -> Conn \cup {NoConn}]
          /\ where \in [Slots -> Nat]
          /\ tl \subseteq Nat \X Slots
          /\ lastCheck \in Nat
          /\ id \in [Conn -> {0} \cup Slots]
          /\ lastRefresh \in [Conn -> Int]
          /\ timedOut \subseteq Conn \cup {NoConn}
          /\ handed \subseteq Conn
          /\ active \in [Conn -> Nat]
          /\ memory \in [Conn -> Int]
          /\ failed \in BOOLEAN

\* An id leads to one connection: no slot is twice in the free list, no free
\* slot is in use, and neither two connections that wait to be added nor one
\* that waits and one that is listed have the same slot.
IdsUnique ==
  /\ NoRepeat(free)
  /\ \A s \in Slots : Holds(free, s) => vConn[s] = NoConn
  /\ \A c \in handed : /\ id[c] \in Slots
                       /\ vConn[id[c]] = NoConn
                       /\ ~Holds(free, id[c])
  /\ \A c, d \in handed : id[c] = id[d] => c = d
  /\ \A s \in Slots : vConn[s] # NoConn =>
       id[vConn[s]] = s /\ vConn[s] \notin handed

\* No slot is lost: each is free, or listed, or reserved for a connection
\* that waits to be added.
NoSlotLost ==
  \A s \in Slots : \/ Holds(free, s)
                   \/ vConn[s] # NoConn
                   \/ \E c \in handed : id[c] = s

\* The time list has exactly one entry for each listed connection, the one
\* its stored iterator points to, so that no erase uses a dangling iterator
\* and checkTimeout never meets an empty slot.
TimeListExact == tl = {<<where[s], s>> : s \in {r \in Slots : vConn[r] # NoConn}}

\* "refresh the time list" (connector_list.h:59): a connection times out only
\* when nothing was received from it for its whole timeout, or when the
\* memory of its Connector happened to hold a time that is not before the
\* one refresh wanted to set: refresh then takes the entry for up to date.
TimedOutWereIdle ==
  [][\A c \in timedOut' \ timedOut :
       active[c] + Keep <= now \/ memory[c] >= active[c] + Keep]_lvars
=============================================================================
