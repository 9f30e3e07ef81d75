------------------------------ MODULE NetThread ------------------------------
(***************************************************************************)
(* net/net_thread.h: one network thread, with its event loop (the part of  *)
(* base/event_loop.cc it uses), its list of connections (ConnectorList)    *)
(* and its queue of commands, the thread that accepts connections, the     *)
(* peers, and the handler threads, which send, close and set user data     *)
(* through the command queue only.                                         *)
(*                                                                         *)
(* The thread with index 0 accepts the connections of all threads and owns *)
(* the only timer.  For Index = 0 the accept callback and the callbacks of *)
(* this thread exclude each other; for any other Index they interleave.    *)
(*                                                                         *)
(* process_event holds eventMutex while a callback runs and event_ctl      *)
(* takes it, so an fd is registered only between two callbacks.  One       *)
(* command is one action: what it does to the event loop, the socket and   *)
(* the list is ordered inside the callback and nobody can look between.    *)
(*                                                                         *)
(* Where an assertion of the list fails (failed) the program has ended and *)
(* no thread takes a step.                                                 *)
(*                                                                         *)
(* The command queue is the channel of BoundedQueue: it refuses an element *)
(* only when it holds QMax or more, and may hold up to QCap because        *)
(* push_back tests the size without the mutex (ThreadQueue).               *)
(***************************************************************************)
EXTENDS Integers, Sequences, FiniteSets

CONSTANTS Conn, NoConn, Total, Keep, MaxTime, Uninit, Exempt,  \* ConnectorList
          Index,       \* NetThread::index
          Fds,         \* descriptors connections may get
          PeerOf,      \* the ip and port of each connection's peer
          Allowed,     \* connections isIpAllow lets in
          Closers,     \* connections whose peer may close first
          Handlers,    \* handler threads
          Programs,    \* the command sequences a handler issues
          Budget,      \* bound on the command sequences issued
          QMax, QCap,  \* where the command queue may and must refuse
          AddMayFail   \* can EPOLL_CTL_ADD fail on an open descriptor?

Notify == 0   \* NetThread::notify
Timer  == -1  \* the descriptor of tick_timer

ASSUME NetAssumption ==
  /\ Cardinality(Conn) \in Nat
  /\ Conn = 1..Cardinality(Conn) /\ NoConn = 0
  /\ Total \in Nat /\ Keep \in Nat \ {0} /\ MaxTime \in Nat
  /\ Uninit \subseteq Int /\ Exempt \subseteq Conn
  /\ Fds \subseteq Nat \ {0}
  /\ Allowed \subseteq Conn /\ Closers \subseteq Conn
  /\ Programs \subseteq Seq({"s", "c", "m"}) /\ Budget \in Nat
  /\ QMax \in Nat /\ QCap \in Nat /\ QMax <= QCap

VARIABLES now, free, vConn, where, tl, lastCheck, id, lastRefresh, timedOut,
          handed, active, memory, failed,  \* the variables of ConnectorList
          sock,      \* each connection's socket
          anfd,      \* EventLoop::anfds
          epoll,     \* descriptors registered with the kernel
          ready,     \* descriptors the next epoll_wait returns
          batch,     \* returned by epoll_wait and not yet processed
          sendq,     \* sendlist
          npc,       \* what the network thread is doing
          todo,      \* ids read_data is still to be called with
          own,       \* close commands the network thread itself has to push
          cur,       \* the connection read_data holds, if any
          early,     \* did it find one that add_connector was not done with?
          apc, anew, \* the accepting thread and its new connection
          known,     \* connections the handlers know
          hcmds,     \* commands each handler still has to push
          hnote,     \* handlers about to call mod_ev_only
          begun,     \* command sequences issued
          cbs,       \* calls of ClosedConnectCB for each connection
          answered,  \* connections a whole response was written to
          left,      \* connections with a rest of a response in out_buf
          dropped,   \* connections a response to which the queue refused
          replied,   \* connections closed by a handler that had responded
          userData   \* connections with data set

lvars == <<now, free, vConn, where, tl, lastCheck, id, lastRefresh, timedOut,
           handed, active, memory, failed>>
loopv == <<anfd, epoll>>
curv  == <<cur, early>>
netv  == <<npc, todo, own, curv>>
accv  == <<apc, anew>>
hanv  == <<hcmds, hnote, begun>>
repv  == <<answered, left, replied>>
seen  == <<cbs, repv, dropped, userData>>
vars  == <<lvars, sock, loopv, ready, batch, sendq, netv, accv, known, hanv,
           seen>>

L == INSTANCE ConnectorList

\* A command: what it asks for, the connection meant, and whether it is the
\* last of a response (HttpServer::handle).
Command == [op : {"s", "c", "m"}, conn : Conn, reply : BOOLEAN]
Close(c) == [op |-> "c", conn |-> c, reply |-> FALSE]

IsOpen(c) == sock[c].st = "open"
Fd(c)     == sock[c].fd
FreeFds   == Fds \ {Fd(c) : c \in {d \in Conn : IsOpen(d)}}

\* Variant: the queue takes one element too many.
AcceptsOneMore == Len(sendq) <= QCap

Accepts == Len(sendq) < QCap
Refuses == Len(sendq) >= QMax

\* Thread 0 runs its own accept callback: nothing else of it runs.
InAccept == Index = 0 /\ apc # "idle"

Init == /\ L!Init
        /\ sock = [c \in Conn |-> [st |-> "new", fd |-> 0, data |-> "none",
                                   fin |-> FALSE]]
        /\ anfd = [f \in Fds |-> [used |-> FALSE, evs |-> <<>>, flag |-> FALSE]]
        /\ epoll = {}
        /\ ready = {Notify}  \* an edge-triggered WRITE event fires at once
        /\ batch = {}
        /\ sendq = <<>>
        /\ npc = "wait" /\ todo = <<>> /\ own = {}
        /\ cur = NoConn /\ early = FALSE
        /\ apc = "idle" /\ anew = NoConn
        /\ known = {}
        /\ hcmds = [h \in Handlers |-> <<>>]
        /\ hnote = [h \in Handlers |-> FALSE]
        /\ begun = 0
        /\ cbs = [c \in Conn |-> 0]
        /\ answered = {} /\ left = {} /\ dropped = {}
        /\ replied = {} /\ userData = {}

-----------------------------------------------------------------------------
(* The peers and the clock, external.                                      *)

\* Connections are numbered in the order in which they are accepted.
NextConn(c) == sock[c].st = "new" /\ \A d \in Conn : d < c => sock[d].st # "new"

\* Something readable reached the socket of c: an edge if it is registered.
Edge(c) == ready' = IF Fd(c) \in epoll THEN ready \cup {Fd(c)} ELSE ready

PeerSends(c) ==
  /\ ~failed
  /\ IsOpen(c) /\ sock[c].data = "none" /\ ~sock[c].fin
  /\ sock' = [sock EXCEPT ![c].data = "unread"]
  /\ Edge(c)
  /\ UNCHANGED <<lvars, loopv, batch, sendq, netv, accv, known, hanv, seen>>

PeerCloses(c) ==
  /\ ~failed
  /\ c \in Closers
  /\ IsOpen(c) /\ ~sock[c].fin
  /\ sock' = [sock EXCEPT ![c].fin = TRUE]
  /\ Edge(c)
  /\ UNCHANGED <<lvars, loopv, batch, sendq, netv, accv, known, hanv, seen>>

\* Time passes; thread 0 has a timer.
Clock ==
  /\ L!Clock
  /\ ready' = IF Index = 0 THEN ready \cup {Timer} ELSE ready
  /\ UNCHANGED <<sock, loopv, batch, sendq, netv, accv, known, hanv, seen>>

-----------------------------------------------------------------------------
(* The accepting thread.                                                   *)

Accepted(c) ==
  /\ ~failed
  /\ apc = "idle" /\ NextConn(c)
  /\ Index = 0 => npc = "wait"
  /\ \E f \in FreeFds : sock' = [sock EXCEPT ![c].st = "open", ![c].fd = f]

\* accept_socket up to and including CreateConnectorCB.
Accept(c) ==
  /\ c \in Allowed
  /\ Accepted(c)
  /\ L!GetUniqId(c)
  /\ apc' = "list" /\ anew' = c
  /\ UNCHANGED <<loopv, ready, batch, sendq, netv, known, hanv, seen>>

\* accept_socket for an address that is not allowed: the descriptor stays.
Reject(c) ==
  /\ c \notin Allowed
  /\ Accepted(c)
  /\ UNCHANGED <<lvars, loopv, ready, batch, sendq, netv, accv, known, hanv,
                 seen>>

\* add_connector: into the list.
AddToList ==
  /\ ~failed
  /\ apc = "list"
  /\ L!Add(anew)
  /\ apc' = "watch"
  /\ UNCHANGED <<sock, loopv, ready, batch, sendq, netv, anew, known, hanv,
                 seen>>

\* EventLoop::add_event for a READ event: what becomes of the entry of fd f,
\* and whether the kernel is called at all.
WithEvent(f, uid) ==
  IF anfd[f].used
  THEN IF anfd[f].flag THEN anfd[f].evs ELSE Append(anfd[f].evs, uid)
  ELSE <<uid>>
NeedsKernel(f) == ~anfd[f].used \/ ~anfd[f].flag

\* add_connector: into the event loop.  A failure of EPOLL_CTL_ADD leaves
\* the entry of anfds in use, with its events flag as it was.
Watch ==
  LET f == Fd(anew)
  IN /\ ~failed
     /\ apc = "watch"
     /\ npc = "wait"
     /\ \/ /\ NeedsKernel(f) => IsOpen(anew)
           /\ anfd' = [anfd EXCEPT ![f] =
                         [used |-> TRUE, evs |-> WithEvent(f, id[anew]),
                          flag |-> TRUE]]
           /\ IF NeedsKernel(f)
              THEN /\ epoll' = epoll \cup {f}
                   /\ ready' = IF sock[anew].data = "unread" \/ sock[anew].fin
                               THEN ready \cup {f} ELSE ready
              ELSE UNCHANGED <<epoll, ready>>
           /\ apc' = "idle"
        \/ /\ NeedsKernel(f)
           /\ AddMayFail \/ ~IsOpen(anew)
           /\ anfd' = [anfd EXCEPT ![f].used = TRUE,
                                   ![f].evs = WithEvent(f, id[anew])]
           /\ apc' = "undo"
           /\ UNCHANGED <<epoll, ready>>
     /\ UNCHANGED <<lvars, sock, batch, sendq, netv, anew, known, hanv, seen>>

\* add_connector: out of the list again; the Connector goes with its last
\* reference, which may be read_data's, and closes the descriptor.
Undo ==
  /\ ~failed
  /\ apc = "undo"
  /\ L!Del(id[anew])
  /\ sock' = IF cur = anew THEN sock
             ELSE [sock EXCEPT ![anew].st = "closed"]
  /\ apc' = "idle"
  /\ UNCHANGED <<loopv, ready, batch, sendq, netv, anew, known, hanv, seen>>

-----------------------------------------------------------------------------
(* The network thread.                                                     *)

\* epoll_wait returns what is ready.
EpollWait ==
  /\ ~failed
  /\ npc = "wait" /\ ~InAccept
  /\ batch = {} /\ ready # {}
  /\ batch' = ready
  /\ ready' = {}
  /\ UNCHANGED <<lvars, sock, loopv, sendq, netv, accv, known, hanv, seen>>

\* process_event takes up one event.
Takes(f) == /\ ~failed
            /\ npc = "wait" /\ ~InAccept
            /\ f \in batch
            /\ batch' = batch \ {f}

\* Variant: process_event gives up when the accepting thread is about to
\* take eventMutex.
OnReadableTries(f) ==
  /\ Takes(f)
  /\ f \in Fds
  /\ IF anfd[f].used /\ anfd[f].flag /\ apc # "watch"
     THEN todo' = anfd[f].evs /\ npc' = "read"
     ELSE UNCHANGED <<todo, npc>>
  /\ UNCHANGED <<lvars, sock, loopv, ready, sendq, own, curv, accv, known,
                 hanv, seen>>

\* A connection's descriptor: read_data for every event registered for it,
\* nothing if the entry is not in use any more.
OnReadable(f) ==
  /\ Takes(f)
  /\ f \in Fds
  /\ IF anfd[f].used /\ anfd[f].flag
     THEN todo' = anfd[f].evs /\ npc' = "read"
     ELSE UNCHANGED <<todo, npc>>
  /\ UNCHANGED <<lvars, sock, loopv, ready, sendq, own, curv, accv, known,
                 hanv, seen>>

\* read_pipe_cb begins.
OnNotify ==
  /\ Takes(Notify)
  /\ npc' = "drain"
  /\ UNCHANGED <<lvars, sock, loopv, ready, sendq, todo, own, curv, accv,
                 known, hanv, seen>>

\* Variant: checkTimeout marks the connections and calls nobody.
OnTimerMarksOnly ==
  /\ Takes(Timer)
  /\ \/ L!CheckTimeout
     \/ now - lastCheck < 1 /\ UNCHANGED lvars
  /\ UNCHANGED <<sock, loopv, ready, sendq, netv, accv, known, hanv, seen>>

\* tick_timer_cb: checkTimeout calls timeoutCb, which closes, for every
\* connection that is overdue.
OnTimer ==
  /\ Takes(Timer)
  /\ \/ /\ L!CheckTimeout
        /\ own' = {Close(c) : c \in L!Overdue}
        /\ npc' = IF L!Overdue = {} THEN "wait" ELSE "push"
     \/ /\ now - lastCheck < 1
        /\ UNCHANGED <<lvars, own, npc>>
  /\ UNCHANGED <<sock, loopv, ready, sendq, todo, curv, accv, known, hanv,
                 seen>>

Resume(rest) == IF rest = <<>> THEN "wait" ELSE "read"

\* The socket of the connection read_data held, once it is let go: the last
\* reference to it when add_connector has taken it off the list.
LetGo(c) == IF L!IsListed(c) THEN sock[c].st ELSE "closed"

\* read_data for an id that leads to no connection.
ReadNothing ==
  /\ ~failed
  /\ npc = "read"
  /\ L!Lookup(Head(todo)) = NoConn
  /\ todo' = Tail(todo)
  /\ npc' = Resume(Tail(todo))
  /\ UNCHANGED <<lvars, sock, loopv, ready, batch, sendq, own, curv, accv,
                 known, hanv, seen>>

\* read_data gets the connection of an id.
ReadGet ==
  LET c == L!Lookup(Head(todo))
  IN /\ ~failed
     /\ npc = "read" /\ c # NoConn
     /\ cur' = c
     /\ early' = (early \/ (c = anew /\ apc # "idle"))
     /\ todo' = Tail(todo)
     /\ npc' = "got"
     /\ UNCHANGED <<lvars, sock, loopv, ready, batch, sendq, own, accv, known,
                    hanv, seen>>

\* read_data: everything there is was read and parsed.  The loop stops at a
\* read that does not fill the buffer and so does not see an end of file
\* behind the data.  Between get and refresh the accepting thread may have
\* taken the connection off the list.
ReadData ==
  /\ ~failed
  /\ npc = "got"
  /\ sock[cur].fin => sock[cur].data = "unread"
  /\ L!Refresh(id[cur])
  /\ LET new == sock[cur].data = "unread"
     IN /\ sock' = [sock EXCEPT ![cur].data = IF new THEN "read" ELSE @,
                                ![cur].st = LetGo(cur)]
        /\ known' = IF new THEN known \cup {cur} ELSE known
  /\ cur' = NoConn
  /\ npc' = Resume(todo)
  /\ UNCHANGED <<loopv, ready, batch, sendq, todo, own, early, accv, hanv,
                 seen>>

\* read_data: the loop sees the end of file, because there was no data or
\* because the data filled the buffer.  Data up to 4096 bytes is not parsed.
ReadEnd ==
  /\ ~failed
  /\ npc = "got"
  /\ sock[cur].fin
  /\ IF sock[cur].data = "unread"
     THEN /\ sock' = [sock EXCEPT ![cur].data = "read"]
          /\ known' \in {known, known \cup {cur}}
     ELSE UNCHANGED <<sock, known>>
  /\ own' = {Close(cur)}
  /\ npc' = "push"
  /\ UNCHANGED <<lvars, loopv, ready, batch, sendq, todo, curv, accv, hanv,
                 seen>>

\* The last of the closes is pushed.
PushedAll == /\ npc' = Resume(todo)
             /\ cur' = NoConn
             /\ sock' = IF cur = NoConn THEN sock
                        ELSE [sock EXCEPT ![cur].st = LetGo(cur)]

\* Variant: the network thread does not notify itself.
PushOwnSilent(x) ==
  /\ ~failed
  /\ npc = "push" /\ x \in own
  /\ Accepts
  /\ sendq' = Append(sendq, x)
  /\ own' = own \ {x}
  /\ \/ own = {x} /\ PushedAll
     \/ own # {x} /\ UNCHANGED <<npc, cur, sock>>
  /\ UNCHANGED <<lvars, loopv, ready, batch, todo, early, accv, known, hanv,
                 seen>>

\* close_connector called by the network thread itself: push_back succeeds
\* (until it does, the thread sleeps and tries again), then mod_ev_only.
PushOwn(x) ==
  /\ ~failed
  /\ npc = "push" /\ x \in own
  /\ Accepts
  /\ sendq' = Append(sendq, x)
  /\ ready' = ready \cup {Notify}
  /\ own' = own \ {x}
  /\ \/ own = {x} /\ PushedAll
     \/ own # {x} /\ UNCHANGED <<npc, cur, sock>>
  /\ UNCHANGED <<lvars, loopv, batch, todo, early, accv, known, hanv, seen>>

\* Variant: the id alone decides.
TargetById(x) == L!Lookup(id[x.conn])

\* What read_pipe_cb finds under the id of a command, if the ip and the port
\* are those of the command.
Target(x) ==
  LET t == L!Lookup(id[x.conn])
  IN IF t # NoConn /\ PeerOf[t] = PeerOf[x.conn] THEN t ELSE NoConn

\* read_pipe_cb: 's' appends to out_buf and writes what the socket takes of
\* it, all or a part (nothing on EAGAIN).  Only a later 's' writes the rest.
DoSend(t) ==
  /\ \/ answered' = answered \cup {t} /\ left' = left \ {t}
     \/ left' = left \cup {t} /\ UNCHANGED answered
  /\ UNCHANGED <<lvars, sock, loopv, ready, cbs, replied, userData>>

\* read_pipe_cb: 'm' sets the connection's user data.
DoSetData(t) ==
  /\ userData' = userData \cup {t}
  /\ UNCHANGED <<lvars, sock, loopv, ready, cbs, repv>>

\* Variants: the connection stays in the list; its events are not stopped.
DoCloseKeeps(t, x) ==
  LET f == Fd(t)
  IN /\ cbs' = [cbs EXCEPT ![t] = @ + 1]
     /\ anfd' = [anfd EXCEPT ![f].used = FALSE, ![f].evs = <<>>]
     /\ epoll' = epoll \ {f}
     /\ ready' = ready \ {f}
     /\ sock' = [sock EXCEPT ![t].st = "closed"]
     /\ userData' = userData \ {t}
     /\ replied' = IF x.reply THEN replied \cup {t} ELSE replied
     /\ UNCHANGED <<lvars, answered, left>>
DoCloseNoStop(t, x) ==
  /\ cbs' = [cbs EXCEPT ![t] = @ + 1]
  /\ epoll' = epoll \ {Fd(t)}
  /\ ready' = ready \ {Fd(t)}
  /\ sock' = [sock EXCEPT ![t].st = "closed"]
  /\ userData' = userData \ {t}
  /\ L!Del(id[x.conn])
  /\ replied' = IF x.reply THEN replied \cup {t} ELSE replied
  /\ UNCHANGED <<anfd, answered, left>>

\* read_pipe_cb: 'c' calls ClosedConnectCB, stops the events of the
\* descriptor, closes it (which takes it out of epoll) and deletes.
DoClose(t, x) ==
  LET f == Fd(t)
  IN /\ cbs' = [cbs EXCEPT ![t] = @ + 1]
     /\ anfd' = [anfd EXCEPT ![f].used = FALSE, ![f].evs = <<>>]
     /\ epoll' = epoll \ {f}
     /\ ready' = ready \ {f}
     /\ sock' = [sock EXCEPT ![t].st = "closed"]
     /\ userData' = userData \ {t}
     /\ L!Del(id[x.conn])
     /\ replied' = IF x.reply THEN replied \cup {t} ELSE replied
     /\ UNCHANGED <<answered, left>>

\* Variant: 'c' deletes whatever its id leads to.
ExecuteDeletes ==
  LET x == Head(sendq)
      t == Target(x)
  IN /\ ~failed
     /\ npc = "drain" /\ sendq # <<>>
     /\ sendq' = Tail(sendq)
     /\ \/ t = NoConn /\ x.op # "c" /\ UNCHANGED <<lvars, sock, loopv, ready, cbs, repv, userData>>
        \/ /\ t = NoConn /\ x.op = "c" /\ L!Del(id[x.conn])
           /\ UNCHANGED <<sock, loopv, ready, cbs, repv, userData>>
        \/ t # NoConn /\ x.op = "s" /\ DoSend(t)
        \/ t # NoConn /\ x.op = "m" /\ DoSetData(t)
        \/ t # NoConn /\ x.op = "c" /\ DoClose(t, x)
     /\ UNCHANGED <<batch, netv, accv, known, hanv, dropped>>

\* One turn of the loop of read_pipe_cb.
Execute ==
  LET x == Head(sendq)
      t == Target(x)
  IN /\ ~failed
     /\ npc = "drain" /\ sendq # <<>>
     /\ sendq' = Tail(sendq)
     /\ \/ t = NoConn /\ UNCHANGED <<lvars, sock, loopv, ready, cbs, repv, userData>>
        \/ t # NoConn /\ x.op = "s" /\ DoSend(t)
        \/ t # NoConn /\ x.op = "m" /\ DoSetData(t)
        \/ t # NoConn /\ x.op = "c" /\ DoClose(t, x)
     /\ UNCHANGED <<batch, netv, accv, known, hanv, dropped>>

\* The loop of read_pipe_cb finds the queue empty.
DrainEnd ==
  /\ ~failed
  /\ npc = "drain" /\ sendq = <<>>
  /\ npc' = "wait"
  /\ UNCHANGED <<lvars, sock, loopv, ready, batch, sendq, todo, own, curv,
                 accv, known, hanv, seen>>

-----------------------------------------------------------------------------
(* The handler threads.                                                    *)

\* A handler starts a sequence of commands for a connection it knows.
Begin(h, c, p) ==
  /\ ~failed
  /\ hcmds[h] = <<>> /\ ~hnote[h]
  /\ c \in known /\ begun < Budget
  /\ hcmds' = [hcmds EXCEPT ![h] =
                 [i \in 1..Len(p) |->
                    [op |-> p[i], conn |-> c, reply |-> p = <<"s", "c">>]]]
  /\ begun' = begun + 1
  /\ UNCHANGED <<lvars, sock, loopv, ready, batch, sendq, netv, accv, known,
                 hnote, seen>>

\* A handler that is about to push; the end of the push.
Pushes(h) == ~failed /\ hcmds[h] # <<>> /\ ~hnote[h]
Pushed(h) == /\ hcmds' = [hcmds EXCEPT ![h] = Tail(@)]
             /\ hnote' = [hnote EXCEPT ![h] = TRUE]

\* The queue takes x, or is full and refuses it: a response may be lost.
Enqueue(x) == Accepts /\ sendq' = Append(sendq, x) /\ UNCHANGED dropped
Refuse(x)  == /\ Refuses /\ UNCHANGED sendq
              /\ dropped' = IF x.op = "s" THEN dropped \cup {x.conn} ELSE dropped

\* Variants: a close overtakes what is queued; a close is dropped like any
\* other command when the queue is full.
PushUrgent(h) ==
  /\ Pushes(h) /\ Pushed(h)
  /\ LET x == Head(hcmds[h])
     IN \/ x.op = "c" /\ Accepts /\ sendq' = <<x>> \o sendq /\ UNCHANGED dropped
        \/ x.op # "c" /\ (Enqueue(x) \/ Refuse(x))
  /\ UNCHANGED <<lvars, sock, loopv, ready, batch, netv, accv, known, begun,
                 cbs, repv, userData>>

\* send, close_connector and SetConnectorData push a command.  On a full
\* queue 's' and 'm' are dropped, and 'c' is tried again.
Push(h) ==
  /\ Pushes(h) /\ Pushed(h)
  /\ LET x == Head(hcmds[h])
     IN Enqueue(x) \/ (x.op # "c" /\ Refuse(x))
  /\ UNCHANGED <<lvars, sock, loopv, ready, batch, netv, accv, known, begun,
                 cbs, repv, userData>>

\* mod_ev_only, the end of each of the three calls.
Wake(h) ==
  /\ ~failed
  /\ hnote[h]
  /\ ready' = ready \cup {Notify}
  /\ hnote' = [hnote EXCEPT ![h] = FALSE]
  /\ UNCHANGED <<lvars, sock, loopv, batch, sendq, netv, accv, known, hcmds,
                 begun, seen>>

-----------------------------------------------------------------------------
NetStep == \/ EpollWait
           \/ \E f \in batch : OnReadable(f)
           \/ OnNotify
           \/ OnTimer
           \/ ReadNothing
           \/ ReadGet
           \/ ReadData
           \/ ReadEnd
           \/ \E x \in own : PushOwn(x)
           \/ Execute
           \/ DrainEnd

AcceptStep == AddToList \/ Watch \/ Undo

HandlerStep(h) == Push(h) \/ Wake(h)

Next == \/ NetStep
        \/ \E c \in Conn : Accept(c) \/ Reject(c)
        \/ AcceptStep
        \/ \E h \in Handlers : \/ HandlerStep(h)
                               \/ \E c \in known, p \in Programs : Begin(h, c, p)
        \/ \E c \in Conn : PeerSends(c) \/ PeerCloses(c)
        \/ Clock

Spec == Init /\ [][Next]_vars

\* Threads that can run do run, and time passes.  Peers, and handlers
\* between two requests, may do nothing.
FairSpec == /\ Spec
            /\ WF_vars(NetStep)
            /\ WF_vars(AcceptStep)
            /\ \A h \in Handlers : WF_vars(HandlerStep(h))
            /\ WF_vars(Clock)

-----------------------------------------------------------------------------
(* Properties.                                                             *)

\* Every variable of this module has its type.
TypeOK ==
  /\ sock \in [Conn -> [st : {"new", "open", "closed"}, fd : {0} \cup Fds,
                        data : {"none", "unread", "read"}, fin : BOOLEAN]]
  /\ anfd \in [Fds -> [used : BOOLEAN, evs : Seq(1..Total), flag : BOOLEAN]]
  /\ epoll \subseteq Fds
  /\ ready \subseteq Fds \cup {Notify, Timer}
  /\ batch \subseteq Fds \cup {Notify, Timer}
  /\ sendq \in Seq(Command) /\ Len(sendq) <= QCap
  /\ npc \in {"wait", "read", "got", "push", "drain"}
  /\ todo \in Seq(1..Total)
  /\ own \subseteq Command
  /\ cur \in Conn \cup {NoConn} /\ early \in BOOLEAN
  /\ apc \in {"idle", "list", "watch", "undo"}
  /\ anew \in Conn \cup {NoConn}
  /\ known \subseteq Conn
  /\ hcmds \in [Handlers -> Seq(Command)]
  /\ hnote \in [Handlers -> BOOLEAN]
  /\ begun \in 0..Budget
  /\ cbs \in [Conn -> Nat]
  /\ answered \subseteq Conn /\ left \subseteq Conn /\ dropped \subseteq Conn
  /\ replied \subseteq Conn /\ userData \subseteq Conn

\* The assertions of add, refresh and del (connector_list.cc:79, 93, 170)
\* fail in one case only: read_data has found a connection that the
\* accepting thread was not done with, through a descriptor or an id that is
\* registered for an earlier one, and its registration fails.
ListAssertsHold == failed => early

\* A connection that add_connector is done with.
Settled(c) == L!IsListed(c) /\ ~(c = anew /\ apc # "idle")

\* "ClosedConnectCB is called when NetThread deletes a connector"
\* (epoll_server.h:170): exactly once for each, although the peer, the timer
\* and any number of handlers may all have asked for the close.
AnnouncedOnce ==
  \A c \in Conn : cbs[c] = IF sock[c].st = "closed" THEN 1 ELSE 0

\* A command acts only on the connection it was issued for, even when that
\* one is gone and its id belongs to another.
RightTarget ==
  [][\A c \in Conn :
       \/ cbs'[c] # cbs[c]
       \/ (c \in answered') # (c \in answered)
       \/ (c \in left') # (c \in left)
       \/ (c \in userData') # (c \in userData)
       => sendq # <<>> /\ Head(sendq).conn = c]_vars

\* The event loop, the kernel and the list agree: a connection in the list
\* is open, is watched, and its descriptor leads back to it ("uses the event
\* loop to receive data", net_thread.h:122).
EveryConnectorWatched ==
  \A c \in Conn : Settled(c) =>
    /\ IsOpen(c)
    /\ Fd(c) \in epoll
    /\ anfd[Fd(c)].used /\ anfd[Fd(c)].evs = <<id[c]>>

\* The other way round: a descriptor in use belongs to a listed connection.
NoStaleRegistration ==
  \A f \in Fds : anfd[f].used =>
    \E c \in Conn : L!IsListed(c) /\ IsOpen(c) /\ Fd(c) = f

\* Both directions: the table of events, epoll and the list agree whenever a connection is settled,
\* while ids and descriptors are used again (net_thread.h:361-424, 558-576).
RegistrationSound == EveryConnectorWatched /\ NoStaleRegistration

\* Commands in the queue are never forgotten: the thread is draining, or is
\* going to be told.
NoLostNotify ==
  sendq # <<>> => \/ Notify \in ready \cup batch
                  \/ npc = "drain"
                  \/ \E h \in Handlers : hnote[h]

\* Edges are never lost: data that waits in the socket of a watched
\* connection is about to be read.
NoLostEdge ==
  \A c \in Conn : Settled(c) /\ sock[c].data = "unread" =>
    \/ Fd(c) \in ready \cup batch
    \/ npc \in {"read", "got", "push"} /\ \E i \in 1..Len(todo) : todo[i] = id[c]
    \/ npc = "got" /\ cur = c

\* User data is attached to open connections only: nothing sets it after
\* ClosedConnectCB had its chance to free it.
NoOrphanData == \A c \in userData : IsOpen(c)

\* Creation, user data and ClosedConnectCB of a connection come in pairs (epoll_server.h:166-170).
CallbacksBalanced == AnnouncedOnce /\ NoOrphanData

\* "as both are put into one queue, the close certainly comes after the
\* send" (http_server.cc:153): a close never overtakes the response before
\* it.  That does not make sure that the response goes out: a full queue may
\* have refused it, and a socket that takes a part of it only leaves the
\* rest in out_buf, which goes with the connection.
AnsweredBeforeClosed == replied \subseteq answered \cup left \cup dropped

\* The network thread waits for room in the queue that only it empties.
BlocksItself == npc = "push" /\ Len(sendq) >= QCap

\* A requested close happens, whoever requested it, unless an assertion ends
\* the program (ListAssertsHold) or the network thread, which pushes a close
\* of its own (net_thread.h:690-693), blocks itself.
Requested(c) ==
  /\ L!IsListed(c)
  /\ \/ Close(c) \in own
     \/ \E i \in 1..Len(sendq) : sendq[i].conn = c /\ sendq[i].op = "c"
     \/ \E h \in Handlers : \E i \in 1..Len(hcmds[h]) :
          hcmds[h][i].conn = c /\ hcmds[h][i].op = "c"

\* "the server times out" (epoll_server.h:166): a connection that stays idle
\* beyond its time is closed.
Idle(c) == Settled(c) /\ \E s \in L!Slots : vConn[s] = c /\ where[s] <= now
IdleClosed == \A c \in Conn : Idle(c) ~> ~Idle(c)
=============================================================================
