------------------------------ MODULE WebServer ------------------------------
(***************************************************************************)
(* net/http_server.cc above the parser: the messages of a connection from  *)
(* http_message_init to free, the processors, the files, and the response  *)
(* that is followed by a close.  Connections are served in mode 2, one     *)
(* handle thread each; a command waits in the queue of the network thread, *)
(* which it shares with all the connections of that thread.                *)
(***************************************************************************)
EXTENDS Naturals, Sequences, FiniteSets, SequencesExt

CONSTANTS Conns, Paths,
          MAX_BODY_SIZE,
          MaxFds,    \* descriptors the process may open for files
          MaxSize,   \* bound: sizes of files
          Requests   \* bound: requests of a connection

\* asked has the requests that the queue took, refused counts the others; lost are the connections
\* that an answer was dropped for, cut those that the socket took only a part of the answer for.
VARIABLE s  \* [reg, size, changes, fds, fresh, freed, message, queue, h, asked, refused, cmds, lost,
            \*  conn, got, cut]

None    == 0
Absent  == 0                 \* sizes start at 1
NotOpen == [pc |-> "idle", msg |-> None, path |-> "", want |-> 0, answer |-> <<>>]
Init == s = [reg |-> {}, size |-> [p \in Paths |-> Absent], changes |-> 0, fds |-> 0,
             fresh |-> 1, freed |-> <<>>, message |-> [c \in Conns |-> None],
             queue |-> [c \in Conns |-> <<>>], h |-> [c \in Conns |-> NotOpen],
             asked |-> [c \in Conns |-> <<>>], refused |-> [c \in Conns |-> 0], cmds |-> <<>>,
             lost |-> {}, conn |-> [c \in Conns |-> "no"], got |-> [c \in Conns |-> <<>>], cut |-> {}]

\* RegisterProcessor: the first processor of a path stays.
RegisterProcessor(p) == p \notin s.reg /\ s' = [s EXCEPT !.reg = @ \cup {p}]

\* The files change under the server.
Change(p) == /\ s.changes < 2
             /\ \E n \in 0..MaxSize : n # s.size[p] /\ s' = [s EXCEPT !.size[p] = n, !.changes = @ + 1]

\* CreateConnectorCB: a parser with a first message.
CreateConnectorCB(c) ==
  /\ s.conn[c] = "no"
  /\ s' = [s EXCEPT !.conn[c] = "open", !.message[c] = s.fresh, !.fresh = @ + 1]

\* ParseImp with Parse: each message that is complete becomes a request, and the parser has a
\* new one (message_complete_cb).  A request that the queue of the handle thread refuses is deleted
\* by addForHandle and, from freed memory, by ParseImp again: what comes after that is undefined.
Parse(c, p) ==
  /\ s.conn[c] = "open" /\ Len(s.asked[c]) + s.refused[c] < Requests
  /\ LET x == [s EXCEPT !.message[c] = s.fresh, !.fresh = @ + 1]
     IN \/ s' = [x EXCEPT !.queue[c] = Append(@, [msg |-> s.message[c], path |-> p]), !.asked[c] = Append(@, p)]
        \/ s' = [x EXCEPT !.freed = @ \o <<s.message[c], s.message[c]>>, !.refused[c] = @ + 1]

Defined == \A c \in Conns : s.refused[c] = 0

\* ClosedConnectCB: the message in work and the list, which ParseImp has emptied.
\* Variant: the request that is being handled is freed as well.
ClosedFreesAll(c) ==
  [s EXCEPT !.conn[c] = "closed", !.freed = Append(@, s.message[c]) \o
      (IF s.h[c].msg = None THEN <<>> ELSE <<s.h[c].msg>>), !.message[c] = None]
ClosedConnectCB(c) ==
  [s EXCEPT !.conn[c] = "closed", !.freed = Append(@, s.message[c]), !.message[c] = None]
PeerCloses(c) == s.conn[c] = "open" /\ s' = [ClosedConnectCB(c) EXCEPT !.conn[c] = "left"]

Take(c) ==
  /\ s.h[c].pc = "idle" /\ s.queue[c] # <<>>
  /\ s' = [s EXCEPT !.h[c] = [NotOpen EXCEPT !.pc = "process", !.msg = Head(s.queue[c]).msg,
                                             !.path = Head(s.queue[c]).path],
                    !.queue[c] = Tail(@)]

Answer(c, status, n) == [s.h[c] EXCEPT !.pc = "send", !.answer = <<status, n>>]

\* process: the processor, or the file, which is opened, examined by its name, then read.  No
\* branch closes the descriptor.
process(c) ==
  /\ s.h[c].pc = "process"
  /\ LET p == s.h[c].path
     IN s' = IF p \in s.reg THEN [s EXCEPT !.h[c] = Answer(c, "called", 0)]
             ELSE IF s.size[p] = Absent \/ s.fds = MaxFds THEN [s EXCEPT !.h[c] = Answer(c, "404", 0)]
             ELSE [s EXCEPT !.fds = @ + 1, !.h[c].pc = "stat"]
Stat(c) ==
  /\ s.h[c].pc = "stat"
  /\ LET n == s.size[s.h[c].path]
     IN s' = IF n = Absent THEN [s EXCEPT !.h[c] = Answer(c, "404", 0)]
             ELSE IF n > MAX_BODY_SIZE THEN [s EXCEPT !.h[c] = Answer(c, "large", 0)]
             ELSE [s EXCEPT !.h[c].pc = "read", !.h[c].want = n]
\* The file behind the descriptor may have been removed by name: its bytes are still there.  A
\* body over MAX_BODY_SIZE is not set.
Read(c) ==
  /\ s.h[c].pc = "read"
  /\ \E now \in IF s.size[s.h[c].path] = Absent THEN 1..MaxSize ELSE {s.size[s.h[c].path]} :
       LET n == IF now < s.h[c].want + 1 THEN now ELSE s.h[c].want + 1
       IN s' = [s EXCEPT !.h[c] = Answer(c, "file", IF n > MAX_BODY_SIZE THEN 0 ELSE n)]

\* handle: send, CloseConnector; then the handle thread deletes the request.  When the queue is
\* full, with commands of other connections too, send drops the answer; CloseConnector waits.
\* Variant: the other way round.
CloseFirst(c) ==
  \/ /\ s.h[c].pc = "send"
     /\ s' = [s EXCEPT !.cmds = Append(@, <<"close", c>>), !.h[c].pc = "close"]
  \/ /\ s.h[c].pc = "close"
     /\ s' = [s EXCEPT !.cmds = Append(@, <<"send", c, s.h[c].path, s.h[c].answer>>), !.h[c] = NotOpen,
                       !.freed = Append(@, s.h[c].msg)]
Reply(c) ==
  \/ /\ s.h[c].pc = "send"
     /\ \/ s' = [s EXCEPT !.cmds = Append(@, <<"send", c, s.h[c].path, s.h[c].answer>>), !.h[c].pc = "close"]
        \/ s' = [s EXCEPT !.lost = @ \cup {c}, !.h[c].pc = "close"]
  \/ /\ s.h[c].pc = "close"
     /\ s' = [s EXCEPT !.cmds = Append(@, <<"close", c>>), !.h[c] = NotOpen,
                       !.freed = Append(@, s.h[c].msg)]

\* The network thread executes a command, if the connection is still there.  The socket takes an
\* answer or a part of it; nothing but another send brings the rest.
Execute ==
  /\ s.cmds # <<>>
  /\ LET m == Head(s.cmds)
         c == m[2]
         x == [s EXCEPT !.cmds = Tail(@)]
     IN IF s.conn[c] # "open" THEN s' = x
        ELSE IF m[1] = "send"
             THEN \E rest \in {{}, {c}} :
                    s' = [x EXCEPT !.got[c] = Append(@, <<m[3], m[4]>>), !.cut = (@ \ {c}) \cup rest]
        ELSE s' = [ClosedConnectCB(c) EXCEPT !.cmds = Tail(@)]

Next == Defined /\ \/ \E p \in Paths : RegisterProcessor(p) \/ Change(p)
                   \/ \E c \in Conns : \/ CreateConnectorCB(c) \/ PeerCloses(c) \/ Take(c)
                                       \/ process(c) \/ Stat(c) \/ Read(c) \/ Reply(c)
                                       \/ \E p \in Paths : Parse(c, p)
                   \/ Execute
Spec == Init /\ [][Next]_s
-----------------------------------------------------------------------------
\* A message is freed once, by the parser's connection or with its request, whichever way the
\* closing of the connection and the handling of its requests interleave; when nothing is in
\* hand all are freed but the one each open connection works on.  Not so once a request has been
\* refused.
MessagesFreedOnce ==
  Defined =>
  /\ IsInjective(s.freed)
  /\ \A c \in Conns : s.message[c] \notin ToSet(s.freed) /\ s.h[c].msg \notin ToSet(s.freed)
  /\ (\A c \in Conns : s.queue[c] = <<>> /\ s.h[c].pc = "idle") =>
       Len(s.freed) + Cardinality({c \in Conns : s.message[c] # None}) = s.fresh - 1

\* http_server.cc:153: the response is sent, then the connection is closed.  So a peer hears
\* once at most, and that is the answer to its first request, and the server closes no connection
\* that it has sent nothing to unless the answer was dropped; what a peer gets of a file that did
\* not change is the whole file, unless the socket took only a part.
AnsweredOnce ==
  \A c \in Conns :
    /\ Len(s.got[c]) \in {0, 1}
    /\ s.conn[c] = "closed" => s.got[c] # <<>> \/ c \in s.lost
    /\ \A i \in 1..Len(s.got[c]) : s.got[c][i][1] = s.asked[c][1]
    /\ s.changes = 1 /\ c \notin s.cut => \A i \in 1..Len(s.got[c]) :
         s.got[c][i][2][1] = "file" => s.got[c][i][2][2] = s.size[s.got[c][i][1]]
=============================================================================
