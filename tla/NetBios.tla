------------------------------- MODULE NetBios -------------------------------
(***************************************************************************)
(* net/netbios.cc: the status query over UDP, of one host or of a subnet.  *)
(* Datagrams may be lost, duplicated and late.  An answer is its sender,   *)
(* the id, the size (short of its fixed part, cut in its names, or whole), *)
(* and the names, each <<name, type is file server, is a group>>.          *)
(***************************************************************************)
EXTENDS Integers, Sequences, FiniteSets, SequencesExt, FiniteSetsExt

CONSTANTS Hosts, NameTables,
          Timeout,    \* of the query, in units
          MaxAnswers, \* bound: datagrams that reach a socket
          Queries     \* bound: queries of a run

VARIABLE s  \* [pc, how, ip, left, waited, asked, inbox, came, ret, list, result, sockets]

TransationID == 1
Answers == [from : Hosts, id : {TransationID, 2}, size : {"short", "cut", "whole"}, names : NameTables]
\* What an answer structure holds; FALSE: handle_ans has not written it, and it is what was there.
Unwritten == [written |-> FALSE, name |-> "", group |-> ""]
Init == s = [pc |-> "idle", how |-> "", ip |-> {}, left |-> 0, waited |-> 0, asked |-> {}, inbox |-> <<>>, came |-> <<>>,
             list |-> <<>>, result |-> -1, sockets |-> 0]

\* query and query_subnet: Open, then send_query, whose failure is not looked at.  No call closes
\* its socket.
Begin(hosts, how) ==
  /\ s.pc = "idle" /\ s.sockets < Queries
  /\ \E sent \in SUBSET hosts :
       s' = [s EXCEPT !.pc = how, !.how = how, !.ip = hosts, !.left = Timeout, !.waited = 0, !.asked = sent,
                      !.inbox = <<>>, !.came = <<>>, !.list = <<>>, !.result = -1, !.sockets = @ + 1]
query        == \E h \in Hosts : Begin({h}, "one")
query_subnet == Begin(Hosts, "subnet")

\* The network: a host that was asked may answer more than once, or not, and any other may send
\* whatever it likes, the right id included.
Arrive == /\ s.pc \in {"one", "subnet"} /\ Len(s.came) < MaxAnswers
          /\ \E a \in Answers : s' = [s EXCEPT !.inbox = Append(@, a), !.came = Append(@, a)]

\* select, which on this system leaves in tv the time that is left.
\* Variant: a system that leaves tv as it was, so that each wait is a whole one.
TickWhole == [s EXCEPT !.waited = @ + 1]
Ticked    == [s EXCEPT !.waited = @ + 1, !.left = @ - 1]
Tick      == s.pc \in {"one", "subnet"} /\ s.inbox = <<>> /\ s.left > 0 /\ s' = Ticked
TimedOut  == /\ s.pc \in {"one", "subnet"} /\ s.inbox = <<>> /\ s.left = 0
             /\ s' = [s EXCEPT !.pc = "idle"]

\* handle_ans.  The group is that of the first group name, NULL if there is none; the name that of
\* the first file server which is no group; without one nothing is written but the unit id.
GroupRows(a)  == {i \in 1..Len(a.names) : a.names[i][3]}
ServerRows(a) == {i \in 1..Len(a.names) : a.names[i][2] /\ ~a.names[i][3]}
\* An answer with another id is a success, and nothing is written.
handle_ans(a) ==
  IF a.size = "short" \/ (a.id = TransationID /\ a.size = "cut") THEN [status |-> -1, ret |-> Unwritten]
  ELSE [status |-> 0,
        ret |-> IF a.id # TransationID \/ ServerRows(a) = {} THEN Unwritten
                ELSE [written |-> TRUE, name |-> a.names[Min(ServerRows(a))][1],
                      group |-> IF GroupRows(a) = {} THEN "(null)" ELSE a.names[Min(GroupRows(a))][1]]]

\* query takes whatever comes first for the answer of the host that was asked.
ReceiveOne ==
  /\ s.pc = "one" /\ s.inbox # <<>>
  /\ LET h == handle_ans(Head(s.inbox))
     IN s' = [s EXCEPT !.pc = "idle", !.inbox = Tail(@), !.result = h.status,
                       !.list = << [ip |-> CHOOSE i \in s.ip : TRUE, ret |-> h.ret] >>]
\* query_subnet takes the sender's address, once for every datagram.
ReceiveAny ==
  /\ s.pc = "subnet" /\ s.inbox # <<>>
  /\ LET h == handle_ans(Head(s.inbox))
     IN s' = [s EXCEPT !.inbox = Tail(@),
                       !.list = IF h.status = 0 THEN Append(@, [ip |-> Head(s.inbox).from, ret |-> h.ret]) ELSE @]

Next == query \/ query_subnet \/ Arrive \/ Tick \/ TimedOut \/ ReceiveOne \/ ReceiveAny
-----------------------------------------------------------------------------
\* A query waits for its timeout at most, however often late and useless answers interrupt it
\* (netbios.cc:113-119).
WaitsOnce == s.waited <= Timeout

\* Whatever is lost, comes twice or is foreign, the name and the group of a result are those of one
\* datagram with the id of this query, the name that of a file server there; in the answer to a
\* subnet the address is that datagram's sender.  (A query of one host does not look at the sender,
\* so the name may be another host's; and nobody tests that the sender was asked.)
\* netbios.cc:105-115, 155-172, 238-290.
NamesTogether ==
  \A i \in 1..Len(s.list) :
    LET e == s.list[i]
    IN e.ret.written => \E k \in 1..Len(s.came) :
         LET a == s.came[k]
         IN /\ s.how = "subnet" => a.from = e.ip
            /\ a.id = TransationID /\ a.size = "whole"
            /\ <<e.ret.name, TRUE, FALSE>> \in ToSet(a.names)
            /\ e.ret.group = "(null)" \/ \E n \in ToSet(a.names) : n[1] = e.ret.group /\ n[3]
\* A datagram makes one row at most.
OneRowEach == Len(s.list) <= Len(s.came) - Len(s.inbox)
NetbiosRight == WaitsOnce /\ NamesTogether /\ OneRowEach
=============================================================================
