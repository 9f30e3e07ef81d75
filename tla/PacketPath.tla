------------------------------ MODULE PacketPath ------------------------------
(***************************************************************************)
(* net/epoll_server.h and net/handle_thread.h: the way of a packet from    *)
(* the network thread that parses it, through recvlist (runMode 1) or the  *)
(* handlelist of one handle thread (runMode 2), to the handle thread that  *)
(* handles and releases it, and EpollServer::Stop, which the main thread   *)
(* calls while all of them run.                                            *)
(*                                                                         *)
(* A packet is <<c, k>>, the k-th that Parse returns for connection c, and *)
(* stands for the TagRecvData and what it points to; released counts how   *)
(* often the record was given back, to operator delete or to the memory    *)
(* pool.  The queues are the channel of BoundedQueue, as in NetThread.     *)
(***************************************************************************)
EXTENDS Integers, Sequences, FiniteSets

CONSTANTS Conn,        \* connections
          FdOf,        \* their descriptors
          NetNum,      \* netThreadNum
          HandleNum,   \* handleThreadNum
          RunModes,    \* the values of runMode
          MaxPackets,  \* bound on the packets of one connection
          QMax, QCap   \* where a queue may and must refuse

ASSUME PathAssumption ==
  /\ FdOf \in [Conn -> Nat]
  /\ NetNum \in Nat \ {0} /\ HandleNum \in Nat \ {0}
  /\ RunModes \subseteq {1, 2}
  /\ MaxPackets \in Nat
  /\ QMax \in Nat /\ QCap \in Nat /\ QMax <= QCap

Nets    == 0..(NetNum - 1)
Handles == 0..(HandleNum - 1)
Packet  == Conn \X (1..MaxPackets)
None    == <<>>

VARIABLES runMode,   \* EpollServer::runMode
          parsed,    \* packets parsed for each connection
          net,       \* the packet each network thread has in ParseImp
          netUp,     \* network threads that are not deleted
          recvlist,  \* EpollServer::recvlist
          handlelist, \* HandleThread::handlelist
          hpc,       \* where each handle thread is in handleImp
          hand,      \* the packet it handles
          goOn,      \* continueHanle
          alive,     \* handle threads that are not deleted
          main,      \* what Stop is doing
          turn,      \* the thread Stop is at
          handled,   \* for each connection, its packets in order of handling
          released,  \* how often each packet was released
          crashed    \* a deleted handle thread was called

nvars == <<parsed, net, netUp>>
qvars == <<recvlist, handlelist>>
hvars == <<hpc, hand, goOn, alive>>
mvars == <<main, turn>>
vars  == <<runMode, nvars, qvars, hvars, mvars, handled, released, crashed>>

\* GetNetThreadOfFd and the choice of InsertRecvData.
NetOf(c)  == FdOf[c] % NetNum
\* Variant: packets are dealt out in turn.
HandleInTurn(p) == (FdOf[p[1]] + p[2]) % HandleNum
HandleOf(p) == FdOf[p[1]] % HandleNum

Accepts(q) == Len(q) < QCap
Refuses(q) == Len(q) >= QMax

Init == /\ runMode \in RunModes
        /\ parsed = [c \in Conn |-> 0]
        /\ net = [n \in Nets |-> None]
        /\ netUp = Nets
        /\ recvlist = <<>>
        /\ handlelist = [h \in Handles |-> <<>>]
        /\ hpc = [h \in Handles |-> "top"]
        /\ hand = [h \in Handles |-> None]
        /\ goOn = [h \in Handles |-> TRUE]
        /\ alive = Handles
        /\ main = "run" /\ turn = 0
        /\ handled = [c \in Conn |-> <<>>]
        /\ released = [p \in Packet |-> 0]
        /\ crashed = FALSE

Release(p, n) == released' = [released EXCEPT ![p] = @ + n]

-----------------------------------------------------------------------------
(* Network threads.                                                        *)

\* ParseImp: Parse returned a packet, and a record is made for it.
Parse(c) ==
  LET n == NetOf(c)
  IN /\ ~crashed
     /\ n \in netUp /\ net[n] = None
     /\ parsed[c] < MaxPackets
     /\ parsed' = [parsed EXCEPT ![c] = @ + 1]
     /\ net' = [net EXCEPT ![n] = <<c, parsed[c] + 1>>]
     /\ UNCHANGED <<runMode, netUp, qvars, hvars, mvars, handled, released,
                    crashed>>

\* Variant: ParseImp does not look at what InsertRecvData returns.
InsertSharedLeaks(n) ==
  LET p == net[n]
  IN /\ ~crashed
     /\ runMode = 1 /\ p # None
     /\ \/ /\ Accepts(recvlist)
           /\ recvlist' = Append(recvlist, p)
        \/ /\ Refuses(recvlist)
           /\ UNCHANGED recvlist
     /\ net' = [net EXCEPT ![n] = None]
     /\ UNCHANGED <<runMode, parsed, netUp, handlelist, hvars, mvars, handled,
                    released, crashed>>

\* InsertRecvData and the rest of ParseImp, one queue for all: a packet that
\* is refused is released.
InsertShared(n) ==
  LET p == net[n]
  IN /\ ~crashed
     /\ runMode = 1 /\ p # None
     /\ \/ /\ Accepts(recvlist)
           /\ recvlist' = Append(recvlist, p)
           /\ UNCHANGED released
        \/ /\ Refuses(recvlist)
           /\ Release(p, 1)
           /\ UNCHANGED recvlist
     /\ net' = [net EXCEPT ![n] = None]
     /\ UNCHANGED <<runMode, parsed, netUp, handlelist, hvars, mvars, handled,
                    crashed>>

\* InsertRecvData, addForHandle and the rest of ParseImp, one queue for each
\* handle thread: a packet that is refused is released by addForHandle and
\* again by ParseImp.
InsertOwn(n) ==
  LET p == net[n]
      h == HandleOf(p)
  IN /\ ~crashed
     /\ runMode = 2 /\ p # None
     /\ h \in alive
     /\ \/ /\ Accepts(handlelist[h])
           /\ handlelist' = [handlelist EXCEPT ![h] = Append(@, p)]
           /\ UNCHANGED released
        \/ /\ Refuses(handlelist[h])
           /\ Release(p, 2)
           /\ UNCHANGED handlelist
     /\ net' = [net EXCEPT ![n] = None]
     /\ UNCHANGED <<runMode, parsed, netUp, recvlist, hvars, mvars, handled,
                    crashed>>

\* InsertRecvData calls a handle thread that Stop has deleted.
InsertDead(n) ==
  /\ ~crashed
  /\ runMode = 2 /\ net[n] # None
  /\ HandleOf(net[n]) \notin alive
  /\ crashed' = TRUE
  /\ UNCHANGED <<runMode, nvars, qvars, hvars, mvars, handled, released>>

-----------------------------------------------------------------------------
(* Handle threads: the loop of handleImp.                                  *)

Top(h) ==
  /\ ~crashed
  /\ hpc[h] = "top"
  /\ hpc' = [hpc EXCEPT ![h] = IF goOn[h] THEN "pop" ELSE "exited"]
  /\ UNCHANGED <<runMode, nvars, qvars, hand, goOn, alive, mvars, handled,
                 released, crashed>>

\* Variant: every handle thread looks into recvlist.
PopShared(h) ==
  /\ ~crashed
  /\ hpc[h] = "pop"
  /\ \/ /\ recvlist # <<>>
        /\ recvlist' = Tail(recvlist)
        /\ hand' = [hand EXCEPT ![h] = Head(recvlist)]
        /\ handled' = [handled EXCEPT ![Head(recvlist)[1]] =
                         Append(@, Head(recvlist)[2])]
        /\ hpc' = [hpc EXCEPT ![h] = "handle"]
     \/ /\ recvlist = <<>>
        /\ hpc' = [hpc EXCEPT ![h] = "top"]
        /\ UNCHANGED <<recvlist, hand, handled>>
  /\ UNCHANGED <<runMode, nvars, handlelist, goOn, alive, mvars, released,
                 crashed>>

\* pop_front from recvlist or handlelist: the first packet, or nothing when
\* the 100 ms are over.
Pop(h) ==
  LET q == IF runMode = 1 THEN recvlist ELSE handlelist[h]
  IN /\ ~crashed
     /\ hpc[h] = "pop"
     /\ \/ /\ q # <<>>
           /\ IF runMode = 1
              THEN recvlist' = Tail(q) /\ UNCHANGED handlelist
              ELSE /\ handlelist' = [handlelist EXCEPT ![h] = Tail(q)]
                   /\ UNCHANGED recvlist
           /\ hand' = [hand EXCEPT ![h] = Head(q)]
           /\ handled' = [handled EXCEPT ![Head(q)[1]] =
                            Append(@, Head(q)[2])]
           /\ hpc' = [hpc EXCEPT ![h] = "handle"]
        \/ /\ q = <<>>
           /\ hpc' = [hpc EXCEPT ![h] = "top"]
           /\ UNCHANGED <<qvars, hand, handled>>
     /\ UNCHANGED <<runMode, nvars, goOn, alive, mvars, released, crashed>>

\* handle returned, with or without an exception, and the packet goes.
Finish(h) ==
  /\ ~crashed
  /\ hpc[h] = "handle"
  /\ Release(hand[h], 1)
  /\ hand' = [hand EXCEPT ![h] = None]
  /\ hpc' = [hpc EXCEPT ![h] = "top"]
  /\ UNCHANGED <<runMode, nvars, qvars, goOn, alive, mvars, handled, crashed>>

-----------------------------------------------------------------------------
(* EpollServer::Stop.                                                      *)

StopBegin ==
  /\ ~crashed
  /\ main = "run"
  /\ main' = "terminate" /\ turn' = 0
  /\ UNCHANGED <<runMode, nvars, qvars, hvars, handled, released, crashed>>

\* Variant: terminate only calls stopHandle.
TerminateSilent ==
  /\ ~crashed
  /\ main = "terminate"
  /\ main' = "join"
  /\ UNCHANGED <<runMode, nvars, qvars, hvars, turn, handled, released,
                 crashed>>

Terminate ==
  /\ ~crashed
  /\ main = "terminate"
  /\ goOn' = [goOn EXCEPT ![turn] = FALSE]
  /\ main' = "join"
  /\ UNCHANGED <<runMode, nvars, qvars, hpc, hand, alive, turn, handled,
                 released, crashed>>

\* join, and the start of the destructor.
Join ==
  /\ ~crashed
  /\ main = "join"
  /\ hpc[turn] = "exited"
  /\ main' = "drain"
  /\ UNCHANGED <<runMode, nvars, qvars, hvars, turn, handled, released,
                 crashed>>

\* ~HandleThread: release what is left in handlelist.
Drain ==
  /\ ~crashed
  /\ main = "drain"
  /\ handlelist[turn] # <<>>
  /\ Release(Head(handlelist[turn]), 1)
  /\ handlelist' = [handlelist EXCEPT ![turn] = Tail(@)]
  /\ UNCHANGED <<runMode, nvars, recvlist, hvars, mvars, handled, crashed>>

\* Nothing was there for 100 ms, and the destructor ends.
Drained ==
  /\ ~crashed
  /\ main = "drain"
  /\ handlelist[turn] = <<>>
  /\ main' = "delete"
  /\ UNCHANGED <<runMode, nvars, qvars, hvars, turn, handled, released,
                 crashed>>

\* Variant: Stop goes one handle thread too far.
DeletedOneMore ==
  /\ ~crashed
  /\ main = "delete"
  /\ alive' = alive \ {turn}
  /\ IF turn < HandleNum
     THEN main' = "terminate" /\ turn' = turn + 1
     ELSE main' = "nets" /\ turn' = 0
  /\ UNCHANGED <<runMode, nvars, qvars, hpc, hand, goOn, handled, released,
                 crashed>>

\* The handle thread is gone; the next one, or the network threads.  What
\* came into its handlelist since it was drained is lost.
Deleted ==
  /\ ~crashed
  /\ main = "delete"
  /\ alive' = alive \ {turn}
  /\ IF turn + 1 < HandleNum
     THEN main' = "terminate" /\ turn' = turn + 1
     ELSE main' = "nets" /\ turn' = 0
  /\ UNCHANGED <<runMode, nvars, qvars, hpc, hand, goOn, handled, released,
                 crashed>>

\* StopNetThread deletes a network thread, which waits for the end of the
\* callback it is in.
StopNet ==
  /\ ~crashed
  /\ main = "nets"
  /\ net[turn] = None
  /\ netUp' = netUp \ {turn}
  /\ IF turn + 1 < NetNum
     THEN main' = "nets" /\ turn' = turn + 1
     ELSE main' = "stopped" /\ turn' = 0
  /\ UNCHANGED <<runMode, parsed, net, qvars, hvars, handled, released,
                 crashed>>

StopStep == Terminate \/ Join \/ Drain \/ Drained \/ Deleted \/ StopNet

-----------------------------------------------------------------------------
Insert(n) == InsertShared(n) \/ InsertOwn(n) \/ InsertDead(n)
Handle(h) == Top(h) \/ Pop(h) \/ Finish(h)

Next == \/ \E c \in Conn : Parse(c)
        \/ \E n \in Nets : Insert(n)
        \/ \E h \in Handles : Handle(h)
        \/ StopBegin
        \/ StopStep

Spec == Init /\ [][Next]_vars

\* Threads in the middle of something go on; nothing is assumed of peers,
\* nor that anybody stops the server.
FairSpec == /\ Spec
            /\ \A n \in Nets : WF_vars(Insert(n))
            /\ \A h \in Handles : WF_vars(Handle(h))
            /\ WF_vars(StopStep)

-----------------------------------------------------------------------------
(* Properties.                                                             *)

\* Every variable has its type.
TypeOK ==
  /\ runMode \in RunModes
  /\ parsed \in [Conn -> 0..MaxPackets]
  /\ net \in [Nets -> Packet \cup {None}]
  /\ netUp \subseteq Nets
  /\ recvlist \in Seq(Packet)
  /\ handlelist \in [Handles -> Seq(Packet)]
  /\ hpc \in [Handles -> {"top", "pop", "handle", "exited"}]
  /\ hand \in [Handles -> Packet \cup {None}]
  /\ \A h \in Handles : hpc[h] = "handle" => hand[h] \in Packet
  /\ goOn \in [Handles -> BOOLEAN]
  /\ alive \subseteq Handles
  /\ main \in {"run", "terminate", "join", "drain", "delete", "nets", "stopped"}
  /\ turn \in (IF main = "nets" THEN Nets ELSE Handles)
  /\ handled \in [Conn -> Seq(1..MaxPackets)]
  /\ released \in [Packet -> Nat]
  /\ crashed \in BOOLEAN

Times(q, p) == Cardinality({i \in 1..Len(q) : q[i] = p})

\* A packet that was parsed has one owner until it is released, and none
\* after: it is not lost when a queue refuses it, not handled after it was
\* released, and not in two queues.
OneOwner ==
  \A p \in Packet :
    LET owners == Cardinality({n \in Nets : net[n] = p})
                  + Cardinality({h \in Handles : hand[h] = p})
                  + Times(recvlist, p)
                  + Cardinality({h \in Handles : Times(handlelist[h], p) > 0})
    IN owners = IF p[2] <= parsed[p[1]] /\ released[p] = 0 THEN 1 ELSE 0

\* "when several handle threads must keep the order of a client's requests
\* the second mode has to be used" (epoll_server.h:15): in that mode the
\* packets of a connection are handled in order and one at a time.
InOrder ==
  runMode = 2 =>
    \A c \in Conn :
      /\ \A i, j \in 1..Len(handled[c]) :
           i < j => handled[c][i] < handled[c][j]
      /\ Cardinality({h \in Handles : hand[h] # None /\ hand[h][1] = c}) <= 1

\* "delete it" (epoll_server.h:425): a packet is released once.
ReleasedOnce == \A p \in Packet : released[p] <= 1

\* Stop returns, whatever the threads are doing, unless a deleted handle
\* thread is called.
StopReturns == (main # "run") ~> (main = "stopped" \/ crashed)

\* The packet waits in a queue that will be looked into.
Waiting(p) ==
  \/ main = "run" /\ Times(recvlist, p) > 0
  \/ \E h \in alive : /\ ~(main = "delete" /\ turn = h)
                      /\ Times(handlelist[h], p) > 0

\* A packet that waits is released, by the handle thread that handles it or
\* by the destructor, which releases all that came before it saw the queue
\* empty.  Only what is in recvlist when Stop is called may stay there.
PacketsLeave ==
  \A p \in Packet :
    Waiting(p) ~> \/ released[p] > 0
                  \/ runMode = 1 /\ main # "run"
                  \/ crashed
=============================================================================
