------------------------------- MODULE Streams -------------------------------
(***************************************************************************)
(* base/buffer.h and the buffers of a connection: net/connector.cc reads   *)
(* into in_buf, HttpServer::Parse (net/http_server.cc) takes from it, and  *)
(* out_buf holds what the socket has not taken.  Bytes are numbers; 0 is   *)
(* NUL.  unread, owed and got are histories: what in_buf should hold, what *)
(* was written, what the peer has.                                         *)
(***************************************************************************)
EXTENDS Naturals, Sequences, SequencesExt, FiniteSetsExt

CONSTANTS init_size,  \* Buffer::init_size
          READBYTES,
          Copied,     \* the 10000 bytes that Parse copies
          Arriving    \* bytes that arrive, and bytes written, in a run

VARIABLE s  \* [in, out, come, unread, reused, sees, owed, got, is_closed]

Zeros(n)   == [i \in 1..n |-> 0]
NewBuffer  == [data |-> Zeros(init_size), read_index |-> 0, write_index |-> 0]
readable(b)  == b.write_index - b.read_index
writeable(b) == Len(b.data) - b.write_index
Content(b)   == SubSeq(b.data, b.read_index + 1, b.write_index)

Moves(b, n) == writeable(b) < n /\ writeable(b) + b.read_index >= n
\* Variant: the write index stays.
make_space_kept(b, n) ==
  IF Moves(b, n) THEN [b EXCEPT !.read_index = 0, !.data = Content(b) \o SubSeq(@, readable(b) + 1, Len(@))]
  ELSE [b EXCEPT !.data = @ \o Zeros(b.write_index + n - Len(@))]
make_space(b, n) ==
  IF Moves(b, n) THEN [data |-> Content(b) \o SubSeq(b.data, readable(b) + 1, Len(b.data)),
                       read_index |-> 0, write_index |-> readable(b)]
  ELSE [b EXCEPT !.data = @ \o Zeros(b.write_index + n - Len(@))]
ensure_writeable(b, n) == IF writeable(b) < n THEN make_space(b, n) ELSE b
append(b, bytes) ==
  [b EXCEPT !.data = SubSeq(@, 1, b.write_index) \o bytes
                     \o SubSeq(@, b.write_index + Len(bytes) + 1, Len(@)),
            !.write_index = @ + Len(bytes)]
retrieve_all(b) == [b EXCEPT !.read_index = 0, !.write_index = 0]
retrieve(b, n) == IF n > readable(b) THEN retrieve_all(b) ELSE [b EXCEPT !.read_index = @ + n]

Drop(q, n) == SubSeq(q, n + 1, Len(q))
Init == s = [in |-> NewBuffer, out |-> NewBuffer, come |-> 0, unread |-> <<>>, reused |-> FALSE,
             sees |-> TRUE, owed |-> <<>>, got |-> <<>>, is_closed |-> FALSE]

\* Connector::read and Buffer::read; reused: bytes that were read before lie behind the new.
Read(n) ==
  LET bytes == [i \in 1..n |-> s.come + i]
  IN /\ ~s.is_closed /\ s.come + n <= Arriving
     /\ s' = [s EXCEPT !.in = append(ensure_writeable(@, READBYTES), bytes), !.come = @ + n,
                       !.unread = @ \o bytes, !.reused = @ \/ Moves(s.in, READBYTES)]

\* HttpServer::Parse: strncpy from peek, up to a NUL; the parser takes n bytes of that.
\* Variant: only what is readable is copied, and one byte less of it.
HandedLess == SubSeq(s.in.data, s.in.read_index + 1, s.in.write_index - 1)
Handed == LET all == SubSeq(s.in.data, s.in.read_index + 1, Len(s.in.data))
              ends == {i \in 1..Len(all) : all[i] = 0} \cup {Len(all) + 1}
          IN SubSeq(all, 1, Min({Min(ends) - 1, Copied}))
Parse(n) ==
  /\ readable(s.in) > 0 /\ n <= Len(Handed)
  /\ s' = [s EXCEPT !.in = retrieve(@, n), !.unread = Drop(@, n),
                    !.reused = @ \/ n > readable(s.in),
                    !.sees = @ /\ (s.reused \/ Handed = SubSeq(s.unread, 1, Min({Copied, Len(s.unread)})))]

\* Connector::write, and send, of which the socket takes n bytes; a closed connection drops all.
Write(n) ==
  LET bytes == [i \in 1..n |-> Len(s.owed) + i]
  IN /\ Len(s.owed) + n <= Arriving
     /\ s' = [s EXCEPT !.out = append(ensure_writeable(@, n), bytes), !.owed = @ \o bytes]
\* Variant: what the socket did not take is dropped too.
SendDrops(n) ==
  /\ ~s.is_closed /\ n <= readable(s.out)
  /\ s' = [s EXCEPT !.out = retrieve_all(@), !.got = @ \o SubSeq(Content(s.out), 1, n)]
Send(n) ==
  /\ ~s.is_closed /\ n <= readable(s.out)
  /\ s' = [s EXCEPT !.out = retrieve(@, n), !.got = @ \o SubSeq(Content(s.out), 1, n)]
SendClosed == s.is_closed /\ s' = [s EXCEPT !.out = retrieve_all(@)]
Close == ~s.is_closed /\ s' = [s EXCEPT !.is_closed = TRUE]

Next == (\E n \in 1..READBYTES : Read(n) \/ Parse(n) \/ Write(n) \/ Send(n)) \/ SendClosed \/ Close
Spec == Init /\ [][Next]_s
-----------------------------------------------------------------------------
\* in_buf holds what was read and not parsed, in order, through every growth and every move.
UnreadKept == Content(s.in) = s.unread

\* The peer gets what was written, in order, each byte once, however much the socket takes.
WrittenInOrder == ~s.is_closed => s.got \o Content(s.out) = s.owed

\* What the parser is given is what is unread, until the room of parsed bytes is used again: then
\* strncpy runs on into them.
ParserSeesUnread == s.sees
=============================================================================
