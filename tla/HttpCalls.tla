----------------------------- MODULE HttpCalls -----------------------------
(***************************************************************************)
(* http_parser_execute turn by turn: a call is given some bytes, its loop  *)
(* takes them one turn at a time, until they are used up or an error, a    *)
(* callback or an upgrade ends it.  Any bytes may come in any order.       *)
(***************************************************************************)
EXTENDS HttpExecute

CONSTANTS
  Types,     \* types of parser that are made
  Pieces,    \* what a call may be given
  MaxCalls   \* bound: calls of one parser

ASSUME CallsAssumption == /\ \A p \in Pieces \cup {""} : Len(p) \in Nat
                          /\ MaxCalls \in Nat

VARIABLES parser,
          inside,  \* a call runs
          calls    \* how many there were
vars == <<parser, inside, calls>>

Init == /\ \E t \in Types : parser = http_parser_init(t, "")
        /\ inside = FALSE
        /\ calls = 0

\* A call begins; with the parser of an error it ends at once.
Call(data) ==
  /\ ~inside
  /\ calls < MaxCalls
  /\ parser' = IF parser.errno = "OK" THEN Entered(parser, data)
               ELSE [parser EXCEPT !.ret = 0]
  /\ inside' = (parser.errno = "OK")
  /\ calls' = calls + 1

\* Variant: the test for no bytes comes before the one for an error.
EofAnyway ==
  /\ ~inside
  /\ calls < MaxCalls
  /\ parser' = Returned(AtEnd(Entered(parser, "")))
  /\ calls' = calls + 1
  /\ UNCHANGED inside

\* A call with no bytes: the peer has closed the stream.
Eof ==
  /\ ~inside
  /\ calls < MaxCalls
  /\ parser.errno = "OK"
  /\ parser' = Returned(AtEnd(Entered(parser, "")))
  /\ calls' = calls + 1
  /\ UNCHANGED inside

Loop ==
  /\ inside
  /\ ~parser.halt /\ parser.pos < Len(parser.d)
  /\ parser' = Turn(parser)
  /\ UNCHANGED <<inside, calls>>

Return ==
  /\ inside
  /\ parser.halt \/ parser.pos = Len(parser.d)
  /\ parser' = Returned(IF parser.halt THEN parser ELSE Leftover(parser))
  /\ inside' = FALSE
  /\ UNCHANGED calls

Next == (\E data \in Pieces : Call(data)) \/ Eof \/ Loop \/ Return

Spec == Init /\ [][Next]_vars

-----------------------------------------------------------------------------

\* No assert of http_parser_execute fails (lines 63, 86, 1381, 1487, 1712, 1757,
\* 1758, 1775, 1810, 1821, 1840, 1841, 1859, 1860, 1867, 1874 and 1890), whatever
\* arrives and however it is cut: callbacks are made without an error, a name and
\* a value are only met in the header states that they know, the length of a body
\* is known and not used up, a chunk's header begins with nothing read, at most
\* one piece of data is open when a call ends.  While the message has room for
\* its data, that is: what has not ends the program in the callback, or worse.
AssertsHold == parser.whole => parser.asserts

\* An error is final: the parser does not forget it, and neither the message it
\* was in nor the list of messages changes any more (error:, line 1904).
ErrorIsFinal ==
  [][parser.errno # "OK" => /\ parser'.errno = parser.errno
                            /\ parser'.m = parser.m
                            /\ parser'.list = parser.list]_vars
=============================================================================
