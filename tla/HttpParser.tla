----------------------------- MODULE HttpParser -----------------------------
(***************************************************************************)
(* http_parser_execute as the server calls it, fed with pieces of one byte *)
(* stream: a call is one step, and parser the parser that gets the pieces. *)
(***************************************************************************)
EXTENDS HttpCalls

CONSTANTS
  Streams,               \* [type, bytes, junk, expect, eof] that may arrive:
                         \* expect are the messages in it, eof is 1 if the
                         \* last one ends with the connection
  MaxPiece               \* pieces of up to this size, or all that is left

ASSUME PieceAssumption == MaxPiece \in Nat \ {0}

VARIABLES stream,  \* what arrives
          fed,     \* how many bytes of it were given to the parser
          single   \* history: a parser that got the same bytes one by one
streamVars == <<stream, fed, parser, single, inside, calls>>

-----------------------------------------------------------------------------
(* A call.                                                                 *)

\* n turns of it, in two halves to keep the recursion shallow.
RECURSIVE Turns(_, _)
Turns(x, n) == CASE x.halt \/ n = 0 -> x
                 [] n = 1 -> Turn(x)
                 [] OTHER -> Turns(Turns(x, n \div 2), n - n \div 2)

http_parser_execute(p, data) ==
  LET x == Entered(p, data)
      done(y) == IF y.halt THEN y ELSE Leftover(y)
  IN Returned(CASE p.errno # "OK" -> x
                [] p.errno = "OK" /\ data = "" -> AtEnd(x)
                [] p.errno = "OK" /\ data # "" -> done(Turns(x, Len(data))))

-----------------------------------------------------------------------------
(* A stream arrives in pieces.                                             *)

StreamInit == /\ stream \in Streams
              /\ fed = 0
              /\ parser = http_parser_init(stream.type, stream.junk)
              /\ single = parser
              /\ inside = FALSE
              /\ calls = 0

Left == Len(stream.bytes) - fed

\* What the server does with data (HttpServer::Parse, called in a loop by
\* ParseImp): the parser is called again for what it left, as long as a call
\* delivers a message.
RECURSIVE Hand(_, _)
Hand(p, data) ==
  LET again(y) == IF y.ret \in {0, Len(data)} \/ y.list = p.list THEN y
                  ELSE Hand(y, Part(data, y.ret + 1, Len(data)))
  IN again(http_parser_execute(p, data))

\* The bytes i to j of s, one by one.
RECURSIVE Singly(_, _, _, _)
Singly(p, s, i, j) ==
  LET m == (i + j) \div 2
  IN IF p.errno # "OK" THEN p
     ELSE IF i = j THEN Hand(p, At(s, i))
     ELSE Singly(Singly(p, s, i, m), s, m + 1, j)

\* n bytes arrive.
Feed(n) ==
  /\ n <= Left
  /\ n <= MaxPiece \/ n = Left
  /\ parser' = Hand(parser, Part(stream.bytes, fed + 1, fed + n))
  /\ single' = Singly(single, stream.bytes, fed + 1, fed + n)
  /\ fed' = fed + n
  /\ UNCHANGED <<stream, inside, calls>>

\* The peer has closed the stream: a call with no bytes, which is what the parser
\* is made to be told.  The server never makes one (HttpServer::Parse is called
\* only for bytes that are there); another user of the parser does.
StreamEof == /\ Left = 0
             /\ fed' = fed + 1
             /\ parser' = http_parser_execute(parser, "")
             /\ single' = http_parser_execute(single, "")
             /\ UNCHANGED <<stream, inside, calls>>

StreamNext == (\E n \in 1..Left : Feed(n)) \/ StreamEof

-----------------------------------------------------------------------------

\* The parser comes to the same result however the network cuts the stream
\* into pieces: all its state is the same as after the same bytes one by one,
\* but for what an error leaves of the message it is in.  As long as the messages
\* have room for what they are given.
Result(p) == [p EXCEPT !.ret = 0,
                       !.m = IF p.errno = "OK" THEN @ ELSE http_message_init]
SplitInvariant == stream \in Streams /\ parser.whole /\ single.whole =>
                    Result(parser) = Result(single)

\* The messages delivered are those that were sent, in order, none twice and
\* none made up, at every moment; and when all has arrived, all of them.  As long
\* as they had room for what was sent.
Sent(m) == [method |-> m.method, status_code |-> m.status_code, url |-> m.url,
            headers |-> m.headers, body |-> m.body]
Delivered ==
  LET got == [i \in 1..Len(parser.list) |-> Sent(parser.list[i])]
  IN stream \in Streams /\ parser.whole =>
     /\ IsPrefix(got, stream.expect)
     /\ fed >= Len(stream.bytes) + stream.eof => got = stream.expect
=============================================================================
