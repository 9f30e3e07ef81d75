-------------------------- MODULE HttpCallsProofs --------------------------
(***************************************************************************)
(* The asserts of http_parser_execute hold whatever bytes arrive and       *)
(* however they are cut into calls, for every limit of a header and every  *)
(* width of content_length above a byte's digits.                          *)
(***************************************************************************)
EXTENDS HttpCalls, TLAPS, FiniteSetTheorems

\* The fields that the asserts depend on, and the calls' locals.
Fields == {"state", "errno", "hs", "nread", "cl", "flags", "asserts", "d", "pos",
           "marks", "halt", "ret", "type", "m", "list", "flag", "method", "index", "major",
           "minor", "code", "upgrade", "junk", "whole"}
Shape(x) == Fields \subseteq DOMAIN x /\ DOMAIN x.marks = Kinds

HeaderStates == {"header_field_start", "header_field", "header_value",
                 "headers_almost_done"}
States == StartStates \cup StatusStates \cup {"req_method"} \cup UrlStates
          \cup VersionStates \cup HeaderStates \cup SpaceStates
          \cup BodyStates \cup ChunkStates

\* The states in which data of a kind may be open.
OpenIn == [field |-> {"header_field"}, value |-> {"header_value"},
           url |-> UrlBegun \cup UrlParts, status |-> {"res_status"},
           body |-> {"body_identity", "body_identity_eof", "chunk_data",
                     "chunk_data_almost_done"}]
Marked(marks, s) == \A k \in Kinds : marks[k] # 0 => s \in OpenIn[k]

\* What header_state may be in a name.
NameStates == NameWords \cup Names \cup {"general", "C", "CO", "CON"}

\* What header_state may be in a value.
ValueStates == {"general", "content_length", "matching_transfer_encoding_chunked",
  "matching_connection_keep_alive", "matching_connection_close",
  "transfer_encoding_chunked", "connection_keep_alive", "connection_close"}

\* What holds of a parser without an error, in the state s; n header bytes are
\* counted where a chunk begins.
Sound(x, s, n) ==
  /\ s \in States
  /\ s = "header_field" => x.hs \in NameStates
  /\ s = "header_value" => x.hs \in ValueStates
  /\ s \in {"body_identity", "chunk_data"} => x.cl \notin {0, ULLONG_MAX}
  /\ s \in {"chunk_size", "chunk_parameters", "chunk_size_almost_done"}
       => x.cl # ULLONG_MAX
  /\ s = "chunk_data_almost_done" => x.cl = 0
  /\ s \in ChunkStates => "CHUNKED" \in x.flags
  /\ s = "chunk_size_start" => x.nread = n

Typed(x) == Shape(x) /\ x.cl \in 0..ULLONG_MAX /\ x.nread \in Nat

\* The inductive invariant.
Good(x) ==
  /\ Typed(x)
  /\ x.asserts = TRUE
  /\ x.errno = "OK" => Sound(x, x.state, 0) /\ Marked(x.marks, x.state)
InTurn(x) == /\ Len(x.d) \in Nat /\ x.pos \in 0..Len(x.d)
             /\ x.errno # "OK" => x.halt
Waiting(x) == x.pos = 0 /\ ~x.halt
IInv == /\ Good(parser)
        /\ inside => InTurn(parser)
        /\ ~inside => Waiting(parser)

\* The same inside a turn: "Base" is what an error leaves, "Ready" what a byte
\* finds, "After" what it leaves.
Base(x) == /\ Typed(x) /\ x.asserts = TRUE
           /\ Len(x.d) \in Nat /\ x.pos \in 0..Len(x.d)
Running(x) == x.errno = "OK" /\ ~x.halt
Ready(x) == /\ Base(x) /\ Running(x)
            /\ Sound(x, x.state, 1) /\ Marked(x.marks, x.state)
After(x) == /\ Base(x)
            /\ x.errno # "OK" => x.halt
            /\ x.errno = "OK" => Sound(x, x.state, 0) /\ Marked(x.marks, x.state)

\* The fields that the invariant is about, but for the state and the marks.
Kept(x, y) == /\ y.errno = x.errno /\ y.hs = x.hs /\ y.nread = x.nread
              /\ y.cl = x.cl /\ y.flags = x.flags /\ y.asserts = x.asserts
              /\ y.d = x.d /\ y.pos = x.pos /\ y.halt = x.halt

-----------------------------------------------------------------------------
(* The macros.                                                             *)

\* goto error leaves the parser with an error, whatever state it is in.
LEMMA Failing ==
  ASSUME NEW x, NEW e, e # "OK", Base(x)
  PROVE  After(Fail(x, e))
BY DEF Base, After, Fail, Typed, Shape, Fields

\* A new state: what holds in it has to be shown.
LEMMA Going ==
  ASSUME NEW x, NEW s, Base(x), x.errno = "OK", Sound(x, s, 0), Marked(x.marks, s)
  PROVE  After(Go(x, s))
BY DEF Base, After, Go, Typed, Shape, Fields, Sound

\* A callback with data closes the data and leaves the rest as it is.
LEMMA DataKept ==
  ASSUME NEW x, NEW k \in Kinds, NEW s, Shape(x)
  PROVE  LET y == OnData(x, k, s)
         IN Shape(y) /\ Kept(x, y) /\ y.state = x.state /\ y.marks = x.marks
BY DEF OnData, Shape, Kept, Fields

LEMMA Closed ==
  ASSUME NEW x, NEW k \in Kinds, NEW e, NEW y, y = CALLBACK_DATA(x, k, e),
         Base(x), Running(x)
  PROVE  /\ Shape(y) /\ Kept(x, y) /\ y.state = x.state
         /\ \A l \in Kinds : y.marks[l] = IF l = k THEN 0 ELSE x.marks[l]
<1> DEFINE c == Check(x, x.errno = "OK")
           s == Part(x.d, x.marks[k], e - 1)
           o == OnData(c, k, s)
<1>1. Shape(c) /\ Kept(x, c) /\ c.state = x.state /\ c.marks = x.marks
  BY DEF Base, Typed, Running, Check, Shape, Kept, Fields
<1>2. Shape(o) /\ Kept(c, o) /\ o.state = c.state /\ o.marks = c.marks
  BY <1>1, DataKept
<1>3. CASE x.marks[k] = 0
  <2> HIDE DEF c, s, o
  <2>1. y = x
    BY <1>3 DEF CALLBACK_DATA
  <2> QED
    BY <1>3, <2>1 DEF Base, Typed, Kept
<1>4. CASE x.marks[k] # 0
  <2>1. y = [o EXCEPT !.marks[k] = 0]
    BY <1>4 DEF CALLBACK_DATA
  <2> HIDE DEF c, o
  <2>2. Shape(y) /\ Kept(o, y) /\ y.state = o.state
    BY <1>1, <1>2, <2>1 DEF Shape, Kept, Fields
  <2>3. \A l \in Kinds : y.marks[l] = IF l = k THEN 0 ELSE o.marks[l]
    BY <1>1, <1>2, <2>1 DEF Shape, Fields
  <2> QED
    BY <1>1, <1>2, <2>2, <2>3 DEF Kept
<1> QED
  BY <1>3, <1>4

Unmarked(marks) == \A k \in Kinds : marks[k] = 0

\* Only data of the kind that the state belongs to is open.
LEMMA OneOpen ==
  ASSUME NEW marks, NEW s, NEW k \in Kinds, s \in OpenIn[k], Marked(marks, s)
  PROVE  \A l \in Kinds : l # k => marks[l] = 0
BY DEF Marked, OpenIn, Kinds, UrlBegun, UrlParts

\* No data is open in any other state.
LEMMA NoneOpen ==
  ASSUME NEW marks, NEW s, Marked(marks, s), \A k \in Kinds : s \notin OpenIn[k]
  PROVE  Unmarked(marks)
BY DEF Marked, Unmarked

\* Data that ends with a new state.
LEMMA Ending ==
  ASSUME NEW x, NEW k \in Kinds, NEW s, NEW e, NEW n, Base(x), Running(x),
         Sound(x, s, n), \A l \in Kinds : l # k => x.marks[l] = 0,
         NEW y, y = CALLBACK_DATA(Go(x, s), k, e)
  PROVE  /\ Base(y) /\ Running(y) /\ y.state = s
         /\ Kept(x, y) /\ Sound(y, s, n) /\ Unmarked(y.marks)
<1> DEFINE g == Go(x, s)
<1>1. /\ Shape(g) /\ Kept(x, g) /\ g.state = s /\ g.marks = x.marks
  BY DEF Base, Typed, Go, Shape, Kept, Fields
<1>0. Base(g) /\ Running(g)
  BY <1>1 DEF Base, Typed, Kept, Running
<1>3. y = CALLBACK_DATA(g, k, e)
  OBVIOUS
<1> HIDE DEF g
<1>2. /\ Shape(y) /\ Kept(g, y) /\ y.state = g.state
      /\ \A l \in Kinds : y.marks[l] = IF l = k THEN 0 ELSE g.marks[l]
  BY <1>0, <1>3, Closed
<1>4. Unmarked(y.marks) /\ Kept(x, y)
  BY <1>1, <1>2 DEF Unmarked, Kept
<1> QED
  BY <1>1, <1>2, <1>4 DEF Base, Typed, Kept, Sound, Running

LEMMA EndingAfter ==
  ASSUME NEW x, NEW k \in Kinds, NEW s, NEW e, Base(x), Running(x),
         Sound(x, s, 0), \A l \in Kinds : l # k => x.marks[l] = 0
  PROVE  After(CALLBACK_DATA(Go(x, s), k, e))
<1> DEFINE y == CALLBACK_DATA(Go(x, s), k, e)
<1>1. /\ Base(y) /\ Running(y) /\ y.state = s
      /\ Sound(y, s, 0) /\ Unmarked(y.marks)
  BY Ending
<1> HIDE DEF y
<1>2. After(y)
  BY <1>1 DEF After, Unmarked, Marked, Running
<1> QED
  BY <1>2 DEF y

\* A complete message leaves the parser at the beginning of the next one.
LEMMA Completing ==
  ASSUME NEW x, Base(x), Running(x), Unmarked(x.marks)
  PROVE  After(Complete(x))
<1> DEFINE s == IF http_should_keep_alive(x) THEN start_state(x) ELSE "dead"
           g == Go(x, s)
           n == Notify(g)
           y == message_complete_cb(g, x.pos)
<1>1. s \in {"start_req", "start_res", "dead"}
  BY DEF start_state
<1> HIDE DEF s
<1>2. /\ Shape(g) /\ Kept(x, g) /\ g.state = s /\ g.marks = x.marks
  BY DEF Base, Typed, Go, Shape, Kept, Fields
<1> HIDE DEF g
<1>n. /\ Shape(n) /\ Kept(g, n) /\ n.state = s /\ n.marks = g.marks
  BY <1>2 DEF Notify, Check, Base, Running, Shape, Kept, Fields
<1> HIDE DEF n
<1>3. /\ Shape(y) /\ y.state = s /\ y.marks = g.marks /\ y.hs = g.hs
      /\ y.nread = g.nread /\ y.cl = g.cl /\ y.flags = g.flags
      /\ y.asserts = g.asserts /\ y.d = g.d /\ y.pos = g.pos
      /\ \/ y.errno = "CB_message_complete" /\ y.halt
         \/ y.errno = g.errno /\ y.halt = g.halt
  BY <1>n DEF message_complete_cb, Shape, Kept, Fields, n
<1>4. y = Complete(x)
  BY DEF Complete, s, g, y
<1> HIDE DEF y
<1>5. Base(y)
  BY <1>2, <1>3 DEF Base, Typed, Kept
<1>6. Sound(y, s, 0) /\ Marked(y.marks, s)
  BY <1>1, <1>2, <1>3 DEF Sound, States, StartStates, ChunkStates, Marked, Unmarked
<1> QED
  BY <1>2, <1>3, <1>4, <1>5, <1>6 DEF After, Kept, Running

\* Data of a kind is opened, in a state that goes on with it.
LEMMA Marking ==
  ASSUME NEW x, NEW k \in Kinds, NEW y, y = MARK(x, k), Base(x), Running(x)
  PROVE  /\ Base(y) /\ Running(y) /\ Kept(x, y) /\ y.state = x.state
         /\ \A l \in Kinds : l # k => y.marks[l] = x.marks[l]
<1> DEFINE v == [x.marks EXCEPT ![k] = IF @ = 0 THEN x.pos ELSE @]
<1>1. y = [x EXCEPT !.marks = v] /\ DOMAIN v = DOMAIN x.marks
      /\ \A l \in Kinds : l # k => v[l] = x.marks[l]
  BY DEF MARK, Base, Typed, Shape
<1> HIDE DEF v
<1> QED
  BY <1>1 DEF Base, Running, Kept, Typed, Shape, Fields

LEMMA OpenAfter ==
  ASSUME NEW y, NEW k \in Kinds, Base(y), Running(y), Sound(y, y.state, 0),
         y.state \in OpenIn[k], \A l \in Kinds : l # k => y.marks[l] = 0
  PROVE  After(y)
BY DEF After, Running, Marked

-----------------------------------------------------------------------------
(* Digits and words.                                                       *)

LEMMA DigitBound ==
  ASSUME NEW c \in IS_HEX
  PROVE  Digit(c) \in 0..15
BY DEF IS_HEX, Digit

\* A hexadecimal digit may follow a number that passes the test of the code.
LEMMA HexBound ==
  ASSUME NEW m \in Nat, m > 16, NEW c \in Nat, NEW d \in 0..15,
         ~((m - 16) \div 16 < c)
  PROVE  16 * c + d < m
  OBVIOUS

LEMMA ModBound ==
  ASSUME NEW n \in Nat, NEW m \in Nat
  PROVE  n % (m + 1) \in 0..m /\ (n < m => n % (m + 1) < m)
  OBVIOUS

\* A digit more keeps content_length in its width, and a hexadecimal one keeps
\* it from the value that stands for "none given".
LEMMA Growing ==
  ASSUME NEW x, NEW base \in {10, 16}, NEW c \in IS_HEX, Ready(x),
         x.state = IF base = 16 THEN "chunk_size" ELSE "header_value"
  PROVE  After(GrowLength(x, base, c))
<1> DEFINE n == base * x.cl + Digit(c)
           y == [x EXCEPT !.cl = n % (ULLONG_MAX + 1)]
<1>1. CASE (ULLONG_MAX - base) \div base < x.cl
  BY <1>1, Failing DEF GrowLength, Ready
<1>2. CASE ~((ULLONG_MAX - base) \div base < x.cl)
  <2>1. y = GrowLength(x, base, c)
    BY <1>2 DEF GrowLength
  <2>a. x.cl \in 0..ULLONG_MAX
    BY DEF Ready, Base, Typed
  <2>b. x.cl \in Nat /\ Digit(c) \in 0..15 /\ ULLONG_MAX \in Nat /\ ULLONG_MAX > 16
    BY <2>a, DigitBound, ParserAssumption
  <2>2. n \in Nat
    BY <2>b
  <2>3. base = 16 => n < ULLONG_MAX
    BY <1>2, <2>b, HexBound
  <2>4. /\ Shape(y) /\ y.state = x.state /\ y.marks = x.marks /\ y.hs = x.hs
        /\ y.nread = x.nread /\ y.flags = x.flags /\ y.asserts = x.asserts
        /\ y.d = x.d /\ y.pos = x.pos /\ y.errno = x.errno
        /\ y.cl = n % (ULLONG_MAX + 1)
    BY DEF Ready, Base, Typed, Shape, Fields
  <2> HIDE DEF n, y
  <2>5. y.cl \in 0..ULLONG_MAX /\ (base = 16 => y.cl # ULLONG_MAX)
    BY <2>b, <2>2, <2>3, <2>4, ModBound
  <2>6. Base(y) /\ y.errno = "OK" /\ Marked(y.marks, y.state)
    BY <2>4, <2>5 DEF Ready, Running, Base, Typed
  <2>7. Sound(y, y.state, 0)
    BY <2>4, <2>5 DEF Ready, Sound, ChunkStates
  <2> QED
    BY <2>1, <2>6, <2>7 DEF After
<1> QED
  BY <1>1, <1>2

-----------------------------------------------------------------------------
(* The first line.                                                         *)

\* The states that ask for nothing.
Plain == States \ ({"header_field", "header_value", "body_identity"} \cup ChunkStates)

\* A parser that differs from x in fields that no error and no data depend on.
Quiet(x, y) == /\ Shape(y) /\ y.errno = x.errno /\ y.asserts = x.asserts
               /\ y.d = x.d /\ y.pos = x.pos /\ y.halt = x.halt
               /\ y.cl \in 0..ULLONG_MAX /\ y.nread = x.nread
               /\ y.marks = x.marks

LEMMA QuietFails ==
  ASSUME NEW x, NEW y, NEW e, Ready(x), Quiet(x, y), e # "OK"
  PROVE  After(Fail(y, e))
<1>1. Base(y)
  BY DEF Ready, Base, Quiet, Typed
<1> QED
  BY <1>1, Failing

LEMMA QuietGoes ==
  ASSUME NEW x, NEW y, Ready(x), Quiet(x, y), y.state \in Plain, Unmarked(x.marks)
  PROVE  After(y)
BY DEF Ready, Running, Base, Quiet, Typed, After, Sound, Plain, Marked, Unmarked, ChunkStates

LEMMA PlainGoes ==
  ASSUME NEW x, NEW s \in Plain, Ready(x), Unmarked(x.marks)
  PROVE  After(Go(x, s))
<1>1. Quiet(x, Go(x, s)) /\ Go(x, s).state = s
  BY DEF Ready, Base, Typed, Shape, Fields, Quiet, Go
<1> QED
  BY <1>1, QuietGoes

LEMMA ReadyFails ==
  ASSUME NEW x, NEW e, Ready(x), e # "OK"
  PROVE  After(Fail(x, e))
BY Failing DEF Ready

LEMMA Wanting ==
  ASSUME NEW x, NEW c, NEW want, NEW s \in Plain, Ready(x), Unmarked(x.marks)
  PROVE  After(Want(x, c, want, s))
BY PlainGoes, ReadyFails DEF Want

\* A byte that changes nothing.
LEMMA Staying ==
  ASSUME NEW x, Ready(x), x.state \in Plain
  PROVE  After(x)
BY DEF Ready, Running, After, Sound, Plain, ChunkStates

\* A notification without an error changes nothing.
LEMMA Notified ==
  ASSUME NEW x, NEW y, Ready(x), Quiet(x, y)
  PROVE  Quiet(x, Notify(y)) /\ Notify(y).state = y.state
BY DEF Ready, Running, Base, Quiet, Notify, Check, Shape, Fields

LEMMA Starting ==
  ASSUME NEW x, NEW c, Ready(x), x.state \in StartStates
  PROVE  After(Start(x, c))
<1> DEFINE y == NoBody(x)
           z == [y EXCEPT !.type = "request", !.state = "start_req"]
<1>1. Unmarked(x.marks)
  BY NoneOpen DEF Ready, StartStates, OpenIn, Kinds, UrlBegun, UrlParts
<1>2. Quiet(x, y) /\ Quiet(x, NoBody(z)) /\ y.state = x.state
  BY ParserAssumption DEF Ready, Base, Typed, Shape, Fields, Quiet, NoBody
<1>3. \A s : Quiet(x, Go(y, s)) /\ Go(y, s).state = s
  BY <1>2 DEF Go, Quiet, Shape, Fields
<1>4. ASSUME NEW w, Quiet(x, w)
      PROVE  LET v == [w EXCEPT !.method = FirstMethod[c], !.index = 1, !.state = "req_method"]
             IN Quiet(x, Notify(v)) /\ Notify(v).state = "req_method"
  <2> DEFINE v == [w EXCEPT !.method = FirstMethod[c], !.index = 1, !.state = "req_method"]
  <2>1. Quiet(x, v) /\ v.state = "req_method"
    BY <1>4 DEF Quiet, Shape, Fields
  <2> HIDE DEF v
  <2>2. Quiet(x, Notify(v)) /\ Notify(v).state = "req_method"
    BY <2>1, Notified
  <2> QED
    BY <2>2 DEF v
<1>5. ASSUME NEW w, Quiet(x, NoBody(w))
      PROVE  After(start_req(w, c))
  <2> DEFINE v == [NoBody(w) EXCEPT !.method = FirstMethod[c], !.index = 1,
                                    !.state = "req_method"]
  <2>1. CASE c \notin DOMAIN FirstMethod
    BY <1>5, <2>1, QuietFails DEF start_req
  <2>2. CASE c \in DOMAIN FirstMethod
    <3>1. Quiet(x, Notify(v)) /\ Notify(v).state = "req_method"
      BY <1>4, <1>5
    <3>2. "req_method" \in Plain
      BY DEF Plain, States, ChunkStates
    <3>3. start_req(w, c) = Notify(v)
      BY <2>2 DEF start_req
    <3> QED
      BY <1>1, <3>1, <3>2, <3>3, QuietGoes
  <2> QED
    BY <2>1, <2>2
<1>6. \A s \in {"res_or_resp_H", "res_H"} : After(Notify(Go(y, s)))
  <2> SUFFICES ASSUME NEW s \in {"res_or_resp_H", "res_H"} PROVE After(Notify(Go(y, s)))
    OBVIOUS
  <2>1. Quiet(x, Notify(Go(y, s))) /\ Notify(Go(y, s)).state = s
    BY <1>3, Notified
  <2> QED
    BY <1>1, <2>1, QuietGoes DEF Plain, States, StartStates, StatusStates, ChunkStates
<1>7. After(x) /\ (x.state = "start_res" => After(Notify(y)))
  <2>1. After(x)
    BY <1>1, Staying DEF Plain, States, StartStates, ChunkStates
  <2>2. Quiet(x, Notify(y)) /\ Notify(y).state = x.state
    BY <1>2, Notified
  <2>3. x.state = "start_res" => After(Notify(y))
    BY <1>1, <2>2, QuietGoes DEF Plain, States, StartStates, ChunkStates
  <2> QED
    BY <2>1, <2>3
<1>8. CASE x.state = "dead"
  BY <1>7, <1>8, ReadyFails DEF Start
<1>9. CASE x.state = "start_req_or_res"
  BY <1>2, <1>5, <1>6, <1>7, <1>9 DEF Start
<1>10. CASE x.state = "res_or_resp_H"
  <2> DEFINE u == [x EXCEPT !.type = "response", !.state = "res_HT"]
             v == [x EXCEPT !.type = "request", !.method = "HEAD", !.index = 2,
                            !.state = "req_method"]
  <2>1. Quiet(x, u) /\ Quiet(x, v) /\ u.state = "res_HT" /\ v.state = "req_method"
    BY DEF Ready, Base, Typed, Shape, Fields, Quiet
  <2>2. After(u) /\ After(v)
    BY <1>1, <2>1, QuietGoes DEF Plain, States, StatusStates, ChunkStates
  <2> QED
    BY <1>10, <2>2, ReadyFails DEF Start
<1>11. CASE x.state = "start_res"
  BY <1>2, <1>6, <1>7, <1>11, QuietFails DEF Start
<1>12. CASE x.state = "start_req"
  BY <1>2, <1>5, <1>7, <1>12 DEF Start
<1> QED
  BY <1>8, <1>9, <1>10, <1>11, <1>12 DEF StartStates

LEMMA Numbering ==
  ASSUME NEW x, NEW c, NEW field \in {"major", "minor", "code"}, NEW first,
         NEW s \in Plain, NEW e, e # "OK", Ready(x), Unmarked(x.marks)
  PROVE  After(Decimal(x, c, field, first, s, e))
<1> DEFINE n == Digit(c) + IF first THEN 0 ELSE 10 * x[field]
           y == [x EXCEPT ![field] = n]
           z == [x EXCEPT ![field] = n, !.state = s]
<1> HIDE DEF n
<1>1. Quiet(x, y) /\ Quiet(x, z) /\ z.state = s
  BY DEF Ready, Base, Typed, Shape, Fields, Quiet
<1> HIDE DEF y, z
<1>2. After(Fail(x, e)) /\ After(Fail(y, e)) /\ After(z)
  BY <1>1, ReadyFails, QuietFails, QuietGoes
<1> QED
  BY <1>2 DEF Decimal, n, y, z

LEMMA StatusLines ==
  ASSUME NEW x, NEW c, Ready(x), x.state \in StatusStates
  PROVE  After(StatusLine(x, c))
<1>1. x.state # "res_status" => Unmarked(x.marks)
  BY NoneOpen DEF Ready, StatusStates, OpenIn, Kinds, UrlBegun, UrlParts
<1>2. {"res_H", "res_HT", "res_HTT", "res_HTTP", "res_first_http_major",
       "res_http_major", "res_first_http_minor", "res_http_minor",
       "res_first_status_code", "res_status_code", "res_status_start", "res_status",
       "res_line_almost_done", "header_field_start"} \subseteq Plain
  BY DEF Plain, States, StatusStates, HeaderStates, ChunkStates
<1>3. CASE x.state \in {"res_H", "res_HT", "res_HTT", "res_HTTP", "res_line_almost_done"}
  BY <1>1, <1>2, <1>3, Wanting DEF StatusLine
<1>4. CASE x.state \in {"res_first_http_major", "res_http_major"}
  BY <1>1, <1>2, <1>4, Numbering, PlainGoes DEF StatusLine
<1>5. CASE x.state \in {"res_first_http_minor", "res_http_minor"}
  BY <1>1, <1>2, <1>5, Numbering, PlainGoes DEF StatusLine
<1>6. CASE x.state \in {"res_first_status_code", "res_status_code"}
  BY <1>1, <1>2, <1>6, Numbering, PlainGoes, Staying DEF StatusLine
<1>7. CASE x.state = "res_status_start"
  <2> DEFINE y == [MARK(x, "status") EXCEPT !.state = "res_status", !.index = 0]
  <2>1. PICK z : z = MARK(x, "status")
    OBVIOUS
  <2>2. /\ Base(z) /\ Running(z) /\ Kept(x, z)
        /\ \A l \in Kinds : l # "status" => z.marks[l] = 0
    BY <1>1, <1>7, <2>1, Marking DEF Ready, Unmarked, Kinds
  <2>3. Base(y) /\ Running(y) /\ y.marks = z.marks /\ y.state = "res_status"
    BY <2>1, <2>2 DEF Base, Running, Typed, Shape, Fields
  <2> HIDE DEF y
  <2>4. Sound(y, y.state, 0)
    BY <2>3 DEF Sound, States, StatusStates, ChunkStates
  <2>5. After(y)
    BY <2>2, <2>3, <2>4, OpenAfter DEF OpenIn, Kinds
  <2> QED
    BY <1>1, <1>2, <1>7, <2>5, PlainGoes DEF StatusLine, y
<1>8. CASE x.state = "res_status"
  <2>1. \A s \in {"res_line_almost_done", "header_field_start"} :
          After(CALLBACK_DATA(Go(x, s), "status", x.pos))
    <3>1. \A l \in Kinds : l # "status" => x.marks[l] = 0
      BY <1>8, OneOpen DEF Ready, OpenIn, Kinds
    <3>2. \A s \in {"res_line_almost_done", "header_field_start"} : Sound(x, s, 0)
      BY <1>2 DEF Sound, Plain, ChunkStates
    <3> QED
      BY <3>1, <3>2, EndingAfter DEF Ready, Kinds
  <2> QED
    BY <1>2, <1>8, <2>1, Staying DEF StatusLine
<1> QED
  BY <1>3, <1>4, <1>5, <1>6, <1>7, <1>8 DEF StatusStates

LEMMA Methods ==
  ASSUME NEW x, NEW c, Ready(x), x.state = "req_method"
  PROVE  After(Method(x, c))
<1> DEFINE u == [x EXCEPT !.state = "req_spaces_before_url", !.index = @ + 1]
           v == [x EXCEPT !.index = @ + 1]
           w(m) == [x EXCEPT !.method = m, !.index = @ + 1]
<1>1. Unmarked(x.marks)
  BY NoneOpen DEF Ready, OpenIn, Kinds, UrlBegun, UrlParts
<1>2. {"req_method", "req_spaces_before_url"} \subseteq Plain
  BY DEF Plain, States, UrlStates, ChunkStates
<1>3. /\ Quiet(x, u) /\ u.state = "req_spaces_before_url"
      /\ Quiet(x, v) /\ v.state = x.state
      /\ \A m : Quiet(x, w(m)) /\ w(m).state = x.state
  BY DEF Ready, Base, Typed, Shape, Fields, Quiet
<1> HIDE DEF u, v, w
<1>4. After(u) /\ After(v) /\ \A m : After(w(m))
  BY <1>1, <1>2, <1>3, QuietGoes
<1> QED
  BY <1>4, ReadyFails DEF Method, u, v, w

\* A character of a url leads to another state of the url, or to none.
LEMMA UrlChar ==
  ASSUME NEW s \in UrlStates, NEW c
  PROVE  parse_url_char(s, c) \in UrlBegun \cup UrlParts \cup {"dead"}
<1>1. CASE s = "req_spaces_before_url"
  BY <1>1 DEF parse_url_char, UrlBegun, UrlParts
<1>2. CASE s \in UrlBegun
  BY <1>2 DEF parse_url_char, UrlBegun, UrlParts
<1>3. CASE s \in {"req_server", "req_server_with_at"}
  BY <1>3 DEF parse_url_char, UrlBegun, UrlParts
<1>4. CASE s \in {"req_path"}
  BY <1>4 DEF parse_url_char, UrlBegun, UrlParts
<1>5. CASE s \in {"req_query_string_start", "req_query_string"}
  BY <1>5 DEF parse_url_char, UrlBegun, UrlParts
<1>6. CASE s \in {"req_fragment_start", "req_fragment"}
  BY <1>6 DEF parse_url_char, UrlBegun, UrlParts
<1> QED
  BY <1>1, <1>2, <1>3, <1>4, <1>5, <1>6 DEF UrlStates, UrlParts

LEMMA Urls ==
  ASSUME NEW x, NEW c, Ready(x), x.state \in UrlStates
  PROVE  After(Url(x, c))
<1> DEFINE z == MARK(x, "url")
           y == IF x.state # "req_spaces_before_url" THEN x
                ELSE IF x.method = "CONNECT" THEN Go(z, "req_server_start") ELSE z
           s == parse_url_char(y.state, c)
<1>1. \A k \in Kinds : k # "url" => x.marks[k] = 0
  BY OneOpen, NoneOpen DEF Ready, Unmarked, UrlStates, OpenIn, Kinds, UrlBegun, UrlParts
<1>2. /\ Base(z) /\ Running(z) /\ Kept(x, z) /\ z.state = x.state
      /\ \A k \in Kinds : k # "url" => z.marks[k] = 0
  BY <1>1, Marking DEF Ready, Kinds
<1> HIDE DEF z
<1>3. /\ Base(y) /\ Running(y) /\ y.state \in UrlStates
      /\ \A k \in Kinds : k # "url" => y.marks[k] = 0
  <2>1. CASE y \in {x, z}
    BY <1>1, <1>2, <2>1 DEF Ready
  <2>2. CASE y = Go(z, "req_server_start")
    BY <1>2, <2>2 DEF Go, Base, Running, Typed, Shape, Fields, UrlStates, UrlBegun
  <2> QED
    BY <2>1, <2>2
<1> HIDE DEF y
<1>4. \A t : /\ Base(Go(y, t)) /\ Running(Go(y, t)) /\ Go(y, t).state = t
             /\ Go(y, t).marks = y.marks
  BY <1>3 DEF Go, Base, Running, Typed, Shape, Fields
<1>5. s \in UrlBegun \cup UrlParts \cup {"dead"}
  BY <1>3, UrlChar
<1> HIDE DEF s
<1>6. s \in UrlBegun \cup UrlParts => After(Go(y, s))
  <2> SUFFICES ASSUME s \in UrlBegun \cup UrlParts PROVE After(Go(y, s))
    OBVIOUS
  <2>1. Sound(Go(y, s), Go(y, s).state, 0)
    BY <1>4 DEF Sound, States, UrlStates, ChunkStates, UrlBegun, UrlParts
  <2>2. s \in OpenIn["url"] /\ "url" \in Kinds
    BY DEF OpenIn, Kinds
  <2> QED
    BY <1>3, <1>4, <2>1, <2>2, OpenAfter
<1>7. s = "dead" => After(Fail(Go(y, s), "INVALID_URL"))
  BY <1>4, Failing
<1>8. ASSUME x.state \in UrlParts
      PROVE  \A t \in {"req_http_start", "req_line_almost_done", "header_field_start"} :
               /\ Sound(x, t, 0)
               /\ After(CALLBACK_DATA(Go(x, t), "url", x.pos))
  <2>1. \A t \in {"req_http_start", "req_line_almost_done", "header_field_start"} :
          Sound(x, t, 0)
    BY DEF Sound, States, VersionStates, HeaderStates, ChunkStates
  <2> QED
    BY <1>1, <2>1, EndingAfter DEF Ready, Kinds
<1>9. ASSUME x.state \in UrlParts, NEW t \in {"req_line_almost_done", "header_field_start"}
      PROVE  After(CALLBACK_DATA(Go([x EXCEPT !.major = 0, !.minor = 9], t), "url", x.pos))
  <2> DEFINE w == [x EXCEPT !.major = 0, !.minor = 9]
  <2>1. Base(w) /\ Running(w) /\ Kept(x, w) /\ w.marks = x.marks
    BY DEF Ready, Base, Running, Typed, Shape, Fields, Kept
  <2> HIDE DEF w
  <2>2. Sound(w, t, 0)
    BY <1>8, <1>9, <2>1 DEF Sound, Kept
  <2> QED
    BY <1>1, <2>1, <2>2, EndingAfter DEF w, Kinds
<1> QED
  BY <1>5, <1>6, <1>7, <1>8, <1>9, Staying DEF Url, y, s, z, Plain, States, UrlStates, ChunkStates

LEMMA Versions ==
  ASSUME NEW x, NEW c, Ready(x), x.state \in VersionStates
  PROVE  After(Version(x, c))
<1>1. Unmarked(x.marks)
  BY NoneOpen DEF Ready, VersionStates, OpenIn, Kinds, UrlBegun, UrlParts
<1>2. VersionStates \cup {"header_field_start"} \subseteq Plain
  BY DEF Plain, States, VersionStates, HeaderStates, ChunkStates
<1>3. CASE x.state \in {"req_http_start", "req_line_almost_done"}
  BY <1>1, <1>2, <1>3, PlainGoes, ReadyFails, Staying DEF Version, VersionStates
<1>4. CASE x.state \in {"req_http_H", "req_http_HT", "req_http_HTT", "req_http_HTTP"}
  BY <1>1, <1>2, <1>4, Wanting DEF Version, VersionStates
<1>5. CASE x.state \in {"req_first_http_major", "req_http_major"}
  BY <1>1, <1>2, <1>5, Numbering, PlainGoes, ReadyFails DEF Version, VersionStates
<1>6. CASE x.state \in {"req_first_http_minor", "req_http_minor"}
  BY <1>1, <1>2, <1>6, Numbering, PlainGoes DEF Version, VersionStates
<1> QED
  BY <1>3, <1>4, <1>5, <1>6 DEF VersionStates

-----------------------------------------------------------------------------
(* Headers.                                                                *)

\* The end of a header: the body, the next message, or an error.
LEMMA HeadersDone ==
  ASSUME NEW x0, Base(x0), Running(x0), Unmarked(x0.marks)
  PROVE  After(headers_done(x0))
<1> DEFINE x == [x0 EXCEPT !.nread = 0]
           y == Complete(x)
           z == [y EXCEPT !.halt = TRUE, !.ret = x.pos]
<1>1. Base(x) /\ Running(x) /\ Unmarked(x.marks) /\ x.nread = 0
  BY DEF Base, Running, Typed, Shape, Fields
<1> HIDE DEF x
<1>2. After(y)
  BY <1>1, Completing
<1> HIDE DEF y
<1>3. After(z)
  BY <1>2 DEF After, Base, Typed, Shape, Fields, Sound
<1> HIDE DEF z
<1>4. Marked(x.marks, "chunk_size_start") /\ Marked(x.marks, "body_identity")
      /\ Marked(x.marks, "body_identity_eof")
  BY <1>1 DEF Marked, Unmarked
<1>5. "CHUNKED" \in x.flags => After(Go(x, "chunk_size_start"))
  <2> SUFFICES ASSUME "CHUNKED" \in x.flags PROVE After(Go(x, "chunk_size_start"))
    OBVIOUS
  <2>1. Sound(x, "chunk_size_start", 0)
    BY <1>1 DEF Sound, States, ChunkStates
  <2> QED
    BY <1>1, <1>4, <2>1, Going DEF Running
<1>6. x.cl \notin {0, ULLONG_MAX} => After(Go(x, "body_identity"))
  <2> SUFFICES ASSUME x.cl \notin {0, ULLONG_MAX} PROVE After(Go(x, "body_identity"))
    OBVIOUS
  <2>1. Sound(x, "body_identity", 0)
    BY <1>1 DEF Sound, States, BodyStates, ChunkStates
  <2> QED
    BY <1>1, <1>4, <2>1, Going DEF Running
<1>7. After(Go(x, "body_identity_eof"))
  <2>1. Sound(x, "body_identity_eof", 0)
    BY <1>1 DEF Sound, States, BodyStates, ChunkStates
  <2> QED
    BY <1>1, <1>4, <2>1, Going DEF Running
<1> QED
  BY <1>2, <1>3, <1>5, <1>6, <1>7 DEF headers_done, x, y, z

LEMMA HeadersAlmostDone ==
  ASSUME NEW x, NEW ch, Base(x), Running(x), Unmarked(x.marks)
  PROVE  After(headers_almost_done(x, ch))
<1> DEFINE y == [x EXCEPT !.state = "headers_done",
                          !.upgrade = "UPGRADE" \in x.flags \/ x.method = "CONNECT"]
           z == headers_complete_cb(y)
<1>1. Base(y) /\ Running(y) /\ Unmarked(y.marks)
  BY DEF Base, Running, Typed, Shape, Fields
<1> HIDE DEF y
<1>2. Base(z) /\ Running(z) /\ Unmarked(z.marks)
  BY <1>1 DEF headers_complete_cb, Base, Running, Typed, Shape, Fields
<1> HIDE DEF z
<1>3. After(headers_done(z))
  BY <1>2, HeadersDone
<1> QED
  BY <1>3, Completing, Failing DEF headers_almost_done, y, z

\* Matching a word leaves the rest; header_state goes on, or ends in the state
\* of the word or in none.
LEMMA Matches ==
  ASSUME NEW x, NEW c, NEW y, y = Match(x, c), Base(x), Running(x)
  PROVE  /\ Base(y) /\ Running(y) /\ y.state = x.state /\ y.marks = x.marks
         /\ y.cl = x.cl /\ y.flags = x.flags /\ y.nread = x.nread
         /\ y.hs \in {"general", x.hs, Matched[x.hs]}
BY DEF Match, Base, Running, Typed, Shape, Fields

\* A character of a header's name, which the name's first character opens.
LEMMA HeaderNames ==
  ASSUME NEW x, NEW ch, Ready(x), x.state \in {"header_field_start", "header_field"}
  PROVE  After(HeaderName(x, ch))
<1> DEFINE c == LOWER(ch)
           hs == CASE c = "c" -> "C"
                   [] c = "p" -> "matching_proxy_connection"
                   [] c = "t" -> "matching_transfer_encoding"
                   [] c = "u" -> "matching_upgrade"
                   [] OTHER -> "general"
<1>1. \A k \in Kinds : k # "field" => x.marks[k] = 0
  BY OneOpen, NoneOpen DEF Ready, Unmarked, OpenIn, Kinds, UrlBegun, UrlParts
<1>2. x.state = "header_field_start" => Unmarked(x.marks)
  BY NoneOpen DEF Ready, OpenIn, Kinds, UrlBegun, UrlParts
<1>3. "field" \in Kinds /\ OpenIn["field"] = {"header_field"}
  BY DEF OpenIn, Kinds
<1>4. {"header_field_start", "headers_almost_done", "header_value_discard_ws"}
        \subseteq Plain
  BY DEF Plain, States, HeaderStates, SpaceStates, ChunkStates
<1>5. ASSUME NEW y, Base(y), Running(y), y.state = "header_field", y.hs \in NameStates,
             \A k \in Kinds : k # "field" => y.marks[k] = 0
      PROVE  After(y)
  <2>1. Sound(y, y.state, 0)
    BY <1>5 DEF Sound, States, HeaderStates, ChunkStates
  <2> QED
    BY <1>3, <1>5, <2>1, OpenAfter
<1>6. CASE x.state = "header_field_start" /\ ch = "\r"
  BY <1>2, <1>4, <1>6, PlainGoes DEF HeaderName
<1>7. CASE x.state = "header_field_start" /\ ch = "\n"
  <2> DEFINE g == Go(x, "headers_almost_done")
  <2>1. Base(g) /\ Running(g) /\ Unmarked(g.marks)
    BY <1>2, <1>7 DEF Ready, Go, Base, Running, Typed, Shape, Fields
  <2> QED
    BY <1>7, <2>1, HeadersAlmostDone DEF HeaderName
<1>8. CASE x.state = "header_field" /\ ch = ":"
  <2>1. Sound(x, "header_value_discard_ws", 0)
    BY <1>4 DEF Sound, Plain, ChunkStates
  <2>2. After(CALLBACK_DATA(Go(x, "header_value_discard_ws"), "field", x.pos))
    BY <1>1, <1>3, <2>1, EndingAfter DEF Ready
  <2> QED
    BY <1>8, <2>2 DEF HeaderName
<1>9. CASE x.state = "header_field_start" /\ ch \notin {"\r", "\n"}
  <2> DEFINE z == MARK(x, "field")
             y == [z EXCEPT !.index = 0, !.state = "header_field", !.hs = hs]
  <2>1. /\ Base(z) /\ Running(z)
        /\ \A k \in Kinds : k # "field" => z.marks[k] = 0
    BY <1>1, <1>3, Marking DEF Ready
  <2> HIDE DEF z
  <2>2. /\ Base(y) /\ Running(y) /\ y.state = "header_field" /\ y.marks = z.marks
        /\ y.hs = hs
    BY <2>1 DEF Base, Running, Typed, Shape, Fields
  <2> HIDE DEF y
  <2>4. hs \in NameStates
    BY DEF NameStates, NameWords
  <2> HIDE DEF hs
  <2>3. After(y)
    BY <1>5, <2>1, <2>2, <2>4
  <2> QED
    BY <1>9, <2>3, ReadyFails DEF HeaderName, NameByte, y, z, hs
<1>10. CASE x.state = "header_field" /\ ch # ":"
  <2>0. x.hs \in NameStates
    BY <1>10 DEF Ready, Sound
  <2>1. x.hs \in NameWords => After(Match(x, c))
    <3> DEFINE y == Match(x, c)
    <3> SUFFICES ASSUME x.hs \in NameWords PROVE After(y)
      OBVIOUS
    <3>1. /\ Base(y) /\ Running(y) /\ y.state = "header_field" /\ y.marks = x.marks
          /\ y.hs \in {"general", x.hs, Matched[x.hs]}
      BY <1>10, Matches DEF Ready
    <3> HIDE DEF y
    <3>2. Matched[x.hs] \in Names
      BY DEF Matched, NameWords, Names
    <3>3. y.hs \in NameStates
      BY <3>1, <3>2 DEF NameStates
    <3> QED
      BY <1>1, <1>5, <3>1, <3>3
  <2>2. After(MatchCon(x, c))
    <3> DEFINE y == MatchCon(x, c)
    <3>1. /\ Base(y) /\ Running(y) /\ y.state = "header_field" /\ y.marks = x.marks
          /\ y.hs \in {"CO", "CON", "matching_connection", "matching_content_length",
                       "general"}
      BY <1>10 DEF MatchCon, Ready, Base, Running, Typed, Shape, Fields
    <3> HIDE DEF y
    <3>2. y.hs \in NameStates
      BY <3>1 DEF NameStates, NameWords
    <3> QED
      BY <1>1, <1>5, <3>1, <3>2 DEF y
  <2> DEFINE g == [x EXCEPT !.hs = "general"]
  <2>3. /\ Base(g) /\ Running(g) /\ g.state = "header_field" /\ g.marks = x.marks
        /\ g.hs \in NameStates
    BY <1>10 DEF Ready, Base, Running, Typed, Shape, Fields, NameStates
  <2> HIDE DEF g
  <2>4. After(g)
    BY <1>1, <1>5, <2>3
  <2> QED
    BY <1>10, <2>0, <2>1, <2>2, <2>4, ReadyFails DEF HeaderName, NameByte, NameStates, g
<1> QED
  BY <1>6, <1>7, <1>8, <1>9, <1>10

\* Between headers: no data is open, and any state of the space may be met.
Between(x) == Base(x) /\ Running(x) /\ Unmarked(x.marks)

LEMMA BetweenFails ==
  ASSUME NEW x, NEW e, Between(x), e # "OK"
  PROVE  After(Fail(x, e))
BY Failing DEF Between

LEMMA BetweenGoes ==
  ASSUME NEW x, NEW s \in Plain, Between(x)
  PROVE  After(Go(x, s)) /\ Between(Go(x, s)) /\ Go(x, s).state = s
<1>1. Sound(x, s, 0) /\ Marked(x.marks, s)
  BY DEF Between, Unmarked, Marked, Sound, Plain, ChunkStates
<1>2. After(Go(x, s))
  BY <1>1, Going DEF Between, Running
<1>3. Between(Go(x, s)) /\ Go(x, s).state = s
  BY DEF Between, Go, Base, Running, Typed, Shape, Fields
<1> QED
  BY <1>2, <1>3

LEMMA BetweenReady ==
  ASSUME NEW x, Between(x), x.state \in Plain
  PROVE  Ready(x)
BY DEF Between, Ready, Unmarked, Marked, Sound, Plain, ChunkStates

\* A value begins: its first character decides what is matched in it, and only
\* what has words to match, or counts, goes on.
LEMMA ValueStarts ==
  ASSUME NEW x, NEW ch, Between(x)
  PROVE  After(header_value_start(x, ch))
<1> DEFINE z == MARK(x, "value")
           y == [z EXCEPT !.state = "header_value", !.index = 0]
           c == LOWER(ch)
           fl == IF x.hs = "upgrade" THEN {"UPGRADE"} ELSE {}
           hs == CASE y.hs = "transfer_encoding" /\ c = "c" -> "matching_transfer_encoding_chunked"
                   [] y.hs = "connection" /\ c = "k" -> "matching_connection_keep_alive"
                   [] y.hs = "connection" /\ c = "c" -> "matching_connection_close"
                   [] OTHER -> "general"
           l == [y EXCEPT !.cl = Digit(ch)]
           o == [y EXCEPT !.flags = @ \cup fl, !.hs = hs]
<1>1. /\ Base(z) /\ Running(z) /\ Kept(x, z)
      /\ \A k \in Kinds : k # "value" => z.marks[k] = 0
  BY Marking DEF Between, Unmarked, Kinds
<1> HIDE DEF z
<1>2. Base(y) /\ Running(y) /\ y.state = "header_value" /\ y.marks = z.marks /\ y.hs = x.hs
  BY <1>1 DEF Base, Running, Typed, Shape, Fields, Kept
<1> HIDE DEF y
<1>3. "value" \in Kinds /\ OpenIn["value"] = {"header_value"}
  BY DEF OpenIn, Kinds
<1>4. ASSUME NEW v, Base(v), Running(v), v.state = "header_value", v.marks = y.marks,
             v.hs \in ValueStates
      PROVE  After(v)
  <2>1. Sound(v, v.state, 0)
    BY <1>4 DEF Sound, States, HeaderStates, ChunkStates
  <2> QED
    BY <1>1, <1>2, <1>3, <1>4, <2>1, OpenAfter
<1>5. x.hs = "content_length" /\ ch \in IS_NUM => After(l)
  <2> SUFFICES ASSUME x.hs = "content_length", ch \in IS_NUM PROVE After(l)
    OBVIOUS
  <2>1. Digit(ch) \in 0..ULLONG_MAX
    BY DigitBound, ParserAssumption DEF IS_NUM, IS_HEX
  <2>2. Base(l) /\ Running(l) /\ l.state = "header_value" /\ l.marks = y.marks /\ l.hs = x.hs
    BY <1>2, <2>1 DEF Base, Running, Typed, Shape, Fields
  <2> QED
    BY <1>4, <2>2 DEF ValueStates
<1>6. After(o)
  <2>1. hs \in ValueStates
    BY DEF ValueStates
  <2> HIDE DEF hs
  <2>2. Base(o) /\ Running(o) /\ o.state = "header_value" /\ o.marks = y.marks /\ o.hs = hs
    BY <1>2 DEF Base, Running, Typed, Shape, Fields
  <2> QED
    BY <1>4, <2>1, <2>2
<1>7. After(Fail(y, "INVALID_CONTENT_LENGTH"))
  BY <1>2, Failing
<1> HIDE DEF l, o
<1> QED
  BY <1>5, <1>6, <1>7 DEF header_value_start, l, o, y, z

LEMMA HeaderSpaces ==
  ASSUME NEW x, NEW ch, Between(x), x.state \in SpaceStates
  PROVE  After(HeaderSpace(x, ch))
<1>1. SpaceStates \cup {"header_field_start"} \subseteq Plain
  BY DEF Plain, States, HeaderStates, SpaceStates, ChunkStates
<1>2. /\ After(header_value_start(x, ch))
      /\ After(header_value_start(Go(x, "header_value_start"), ch))
  BY <1>1, ValueStarts, BetweenGoes DEF SpaceStates
<1>3. ASSUME NEW y, Between(y), y.state = "header_field_start"
      PROVE  After(HeaderName(y, ch))
  BY <1>1, <1>3, BetweenReady, HeaderNames
<1>4. After(HeaderName(CALLBACK_DATA(Go(MARK(x, "value"), "header_field_start"),
                                     "value", x.pos), ch))
  <2> DEFINE m == MARK(x, "value")
             y == CALLBACK_DATA(Go(m, "header_field_start"), "value", x.pos)
  <2>1. Base(m) /\ Running(m) /\ \A k \in Kinds : k # "value" => m.marks[k] = 0
    BY Marking DEF Between, Unmarked, Kinds
  <2>2. Sound(m, "header_field_start", 0)
    BY <1>1 DEF Sound, Plain, ChunkStates
  <2> HIDE DEF m
  <2>3. Between(y) /\ y.state = "header_field_start"
    BY <2>1, <2>2, Ending DEF Between, Kinds
  <2> QED
    BY <1>3, <2>3 DEF m
<1>5. ASSUME NEW fl
      PROVE  After(HeaderName([x EXCEPT !.state = "header_field_start",
                                        !.flags = @ \cup fl], ch))
  <2> DEFINE y == [x EXCEPT !.state = "header_field_start", !.flags = @ \cup fl]
  <2>1. Between(y) /\ y.state = "header_field_start"
    BY DEF Between, Base, Running, Typed, Shape, Fields
  <2> QED
    BY <1>3, <2>1
<1>6. \A s \in {"header_value_discard_ws_almost_done", "header_value_discard_lws",
                "header_value_discard_ws", "header_value_lws"} :
        /\ After(Go(x, s)) /\ \A c : After(Want(x, ch, c, s))
  BY <1>1, BetweenGoes, BetweenFails DEF SpaceStates, Want
<1>7. After(x)
  BY <1>1, BetweenReady, Staying
<1>8. CASE x.state = "header_value_discard_ws"
  BY <1>2, <1>6, <1>7, <1>8 DEF HeaderSpace
<1>9. CASE x.state \in {"header_value_start", "header_value_discard_ws_almost_done",
                        "header_almost_done"}
  BY <1>2, <1>6, <1>9 DEF HeaderSpace
<1>10. CASE x.state = "header_value_discard_lws"
  BY <1>4, <1>6, <1>10 DEF HeaderSpace
<1>11. CASE x.state = "header_value_lws"
  BY <1>2, <1>5, <1>11 DEF HeaderSpace
<1> QED
  BY <1>8, <1>9, <1>10, <1>11 DEF SpaceStates

\* A character of a value: line 1487 is not met because a value that begins has
\* left the states of its header's name.
LEMMA HeaderValues ==
  ASSUME NEW x, NEW ch, Ready(x), x.state = "header_value"
  PROVE  After(HeaderValue(x, ch))
<1> DEFINE e == CALLBACK_DATA(Go(x, "header_almost_done"), "value", x.pos)
           g == [x EXCEPT !.hs = "general"]
           m == Match(x, LOWER(ch))
<1>1. "value" \in Kinds /\ OpenIn["value"] = {"header_value"}
  BY DEF OpenIn, Kinds
<1>2. \A l \in Kinds : l # "value" => x.marks[l] = 0
  BY <1>1, OneOpen DEF Ready
<1>3. x.hs \in ValueStates
  BY DEF Ready, Sound
<1>4. ASSUME NEW y, Base(y), Running(y), y.state = "header_value", y.marks = x.marks,
             y.hs \in ValueStates
      PROVE  After(y)
  <2>1. Sound(y, y.state, 0)
    BY <1>4 DEF Sound, States, HeaderStates, ChunkStates
  <2> QED
    BY <1>1, <1>2, <1>4, <2>1, OpenAfter
<1>5. After(e) /\ After(HeaderSpace(e, ch))
  <2>1. Sound(x, "header_almost_done", 0)
    BY DEF Sound, States, SpaceStates, ChunkStates
  <2>2. Between(e) /\ e.state = "header_almost_done"
    BY <1>1, <1>2, <2>1, Ending DEF Ready, Between
  <2>3. After(e)
    BY <1>1, <1>2, <2>1, EndingAfter DEF Ready
  <2> HIDE DEF e
  <2> QED
    BY <2>2, <2>3, HeaderSpaces DEF SpaceStates
<1>6. After(g)
  <2>1. Base(g) /\ Running(g) /\ g.state = "header_value" /\ g.marks = x.marks
        /\ g.hs \in ValueStates
    BY DEF Ready, Base, Running, Typed, Shape, Fields, ValueStates
  <2> QED
    BY <1>4, <2>1
<1>7. x.hs \in Matching \ NameWords => After(m)
  <2> SUFFICES ASSUME x.hs \in Matching \ NameWords PROVE After(m)
    OBVIOUS
  <2>1. x.hs \in {"matching_transfer_encoding_chunked", "matching_connection_keep_alive",
                  "matching_connection_close"}
    BY <1>3 DEF ValueStates, Matching, Words
  <2>2. Matched[x.hs] \in ValueStates
    BY <2>1 DEF Matched, ValueStates
  <2>3. /\ Base(m) /\ Running(m) /\ m.state = "header_value" /\ m.marks = x.marks
        /\ m.hs \in {"general", x.hs, Matched[x.hs]}
    BY Matches DEF Ready
  <2>4. m.hs \in ValueStates
    BY <1>3, <2>2, <2>3 DEF ValueStates
  <2> HIDE DEF m
  <2> QED
    BY <1>4, <2>3, <2>4
<1>8. After(x) /\ x.hs \notin {"connection", "transfer_encoding"}
  BY <1>3, <1>4 DEF Ready, ValueStates
<1>9. ch \in IS_NUM => After(GrowLength(x, 10, ch))
  BY Growing DEF IS_NUM, IS_HEX
<1> HIDE DEF e, g, m
<1> QED
  BY <1>5, <1>6, <1>7, <1>8, <1>9, ReadyFails DEF HeaderValue, e, g, m

-----------------------------------------------------------------------------
(* Bodies.                                                                 *)

\* As much of a body as there is: either the body is used up, or the call is.
LEMMA Taking ==
  ASSUME NEW x, NEW s, NEW y, y = TakeBody(x, s), Ready(x), x.pos > 0,
         x.state \in {"body_identity", "chunk_data"}
  PROVE  /\ Base(y) /\ Running(y) /\ y.flags = x.flags /\ y.nread = x.nread
         /\ \A k \in Kinds : k # "body" => y.marks[k] = 0
         /\ \/ y.state = s /\ y.cl = 0
            \/ y.state = x.state /\ y.cl \notin {0, ULLONG_MAX}
<1> DEFINE rest == Len(x.d) - x.pos + 1
           to_read == IF x.cl < rest THEN x.cl ELSE rest
           m == MARK(x, "body")
           c == Check(m, x.cl \notin {0, ULLONG_MAX})
<1>1. /\ Base(m) /\ Running(m) /\ Kept(x, m) /\ m.state = x.state
      /\ \A k \in Kinds : k # "body" => m.marks[k] = 0
  <2>1. \A k \in Kinds : k # "body" => x.marks[k] = 0
    BY OneOpen DEF Ready, OpenIn, Kinds
  <2> QED
    BY <2>1, Marking DEF Ready, Kinds
<1> HIDE DEF m
<1>2. x.cl \notin {0, ULLONG_MAX} /\ x.cl \in 0..ULLONG_MAX
  BY DEF Ready, Base, Typed, Sound
<1>3. /\ Base(c) /\ Running(c) /\ Kept(x, c) /\ c.state = x.state /\ c.marks = m.marks
  BY <1>1, <1>2 DEF Check, Base, Running, Typed, Shape, Fields, Kept
<1> HIDE DEF c
<1>4. /\ rest \in Nat \ {0} /\ to_read \in Nat \ {0} /\ to_read <= rest
      /\ x.cl - to_read \in 0..ULLONG_MAX /\ x.cl - to_read # ULLONG_MAX
      /\ x.pos + to_read - 1 \in 0..Len(x.d)
  <2>1. Len(x.d) \in Nat /\ x.pos \in 1..Len(x.d)
    BY DEF Ready, Base
  <2>2. x.cl \in 1..ULLONG_MAX - 1 /\ ULLONG_MAX \in Nat
    BY <1>2, ParserAssumption
  <2>3. rest \in 1..Len(x.d) /\ x.pos + rest - 1 = Len(x.d)
    BY <2>1
  <2> HIDE DEF rest
  <2>4. to_read \in 1..rest /\ to_read <= x.cl
    BY <2>2, <2>3
  <2> HIDE DEF to_read
  <2> QED
    BY <2>1, <2>2, <2>3, <2>4
<1>5. y = [c EXCEPT !.cl = @ - to_read, !.pos = @ + to_read - 1,
                    !.state = IF c.cl = to_read THEN s ELSE @]
  BY DEF TakeBody, c, m
<1> HIDE DEF to_read
<1>6. /\ Shape(y) /\ y.cl = x.cl - to_read /\ y.pos = x.pos + to_read - 1
      /\ y.state = IF x.cl = to_read THEN s ELSE x.state
      /\ y.marks = c.marks /\ y.errno = c.errno /\ y.halt = c.halt
      /\ y.asserts = c.asserts /\ y.d = c.d /\ y.flags = c.flags /\ y.nread = c.nread
  BY <1>3, <1>5 DEF Base, Typed, Shape, Fields, Kept
<1>7. Base(y) /\ Running(y)
  BY <1>3, <1>4, <1>6 DEF Base, Running, Typed, Kept
<1> QED
  BY <1>1, <1>2, <1>3, <1>4, <1>6, <1>7 DEF Kept

LEMMA Bodies ==
  ASSUME NEW x, NEW ch, Ready(x), x.pos > 0, x.state \in BodyStates
  PROVE  After(Body(x, ch))
<1>1. CASE x.state = "body_identity"
  <2> DEFINE y == TakeBody(x, "message_done")
             e == CALLBACK_DATA(y, "body", y.pos + 1)
  <2>1. /\ Base(y) /\ Running(y)
        /\ \A k \in Kinds : k # "body" => y.marks[k] = 0
        /\ \/ y.state = "message_done" /\ y.cl = 0
           \/ y.state = "body_identity" /\ y.cl \notin {0, ULLONG_MAX}
    BY <1>1, Taking
  <2> HIDE DEF y
  <2>2. y.cl \in Nat
    BY <2>1, ParserAssumption DEF Base, Typed
  <2>3. y.cl > 0 => After(y)
    <3> SUFFICES ASSUME y.cl > 0 PROVE After(y)
      OBVIOUS
    <3>1. Sound(y, y.state, 0)
      BY <2>1 DEF Sound, States, BodyStates, ChunkStates
    <3>2. "body" \in Kinds /\ y.state \in OpenIn["body"]
      BY <2>1 DEF OpenIn, Kinds
    <3> QED
      BY <2>1, <3>1, <3>2, OpenAfter
  <2>4. Base(e) /\ Running(e) /\ Unmarked(e.marks)
    <3>1. Shape(e) /\ Kept(y, e) /\ \A l \in Kinds : e.marks[l] = 0
      BY <2>1, Closed DEF Kinds
    <3> HIDE DEF e
    <3> QED
      BY <2>1, <3>1 DEF Base, Running, Typed, Kept, Unmarked
  <2>5. After(Complete(e))
    BY <2>4, Completing
  <2> QED
    BY <1>1, <2>2, <2>3, <2>5 DEF Body, y
<1>2. CASE x.state = "body_identity_eof"
  <2> DEFINE z == MARK(x, "body")
             y == [z EXCEPT !.pos = Len(x.d)]
  <2>1. \A k \in Kinds : k # "body" => x.marks[k] = 0
    BY <1>2, OneOpen DEF Ready, OpenIn, Kinds
  <2>2. /\ Base(z) /\ Running(z) /\ Kept(x, z) /\ z.state = x.state
        /\ \A k \in Kinds : k # "body" => z.marks[k] = 0
    BY <2>1, Marking DEF Ready, Kinds
  <2> HIDE DEF z
  <2>3. Base(y) /\ Running(y) /\ y.state = x.state /\ y.marks = z.marks
    BY <2>2 DEF Base, Running, Typed, Shape, Fields, Kept
  <2> HIDE DEF y
  <2>4. Sound(y, y.state, 0)
    BY <1>2, <2>3 DEF Sound, States, BodyStates, ChunkStates
  <2>5. After(y)
    BY <1>2, <2>2, <2>3, <2>4, OpenAfter DEF OpenIn, Kinds
  <2> QED
    BY <1>2, <2>5 DEF Body, y, z
<1>3. CASE x.state = "message_done"
  <2>1. Unmarked(x.marks)
    BY <1>3, NoneOpen DEF Ready, OpenIn, Kinds, UrlBegun, UrlParts
  <2> QED
    BY <1>3, <2>1, Completing DEF Ready, Body
<1> QED
  BY <1>1, <1>2, <1>3 DEF BodyStates

\* A byte of a chunk's line, or as much of its data as there is.
LEMMA Chunks ==
  ASSUME NEW x0, NEW ch, Ready(x0), x0.pos > 0, x0.state \in ChunkStates
  PROVE  After(Chunk(x0, ch))
<1> DEFINE x == Check(x0, /\ "CHUNKED" \in x0.flags
                          /\ x0.state = "chunk_size_start" => x0.nread = 1
                          /\ x0.state = "chunk_data_almost_done" => x0.cl = 0)
<1>1. /\ "CHUNKED" \in x0.flags
      /\ x0.state = "chunk_size_start" => x0.nread = 1
      /\ x0.state = "chunk_data_almost_done" => x0.cl = 0
  BY DEF Ready, Sound
<1>2. Ready(x) /\ x.state = x0.state /\ x.pos = x0.pos
  <2>1. /\ Kept(x0, x) /\ Shape(x) /\ x.state = x0.state /\ x.marks = x0.marks
    BY <1>1 DEF Check, Ready, Base, Typed, Shape, Fields, Kept
  <2> HIDE DEF x
  <2> QED
    BY <2>1 DEF Ready, Base, Running, Typed, Sound, Kept
<1> HIDE DEF x
<1>3. x.cl \in 0..ULLONG_MAX /\ "CHUNKED" \in x.flags
  BY <1>2 DEF Ready, Base, Typed, Sound
<1>4. x.state \notin {"chunk_data", "chunk_data_almost_done"} => Unmarked(x.marks)
  BY <1>2, NoneOpen DEF Ready, ChunkStates, OpenIn, Kinds, UrlBegun, UrlParts
<1>5. ASSUME NEW y, Base(y), Running(y), Unmarked(y.marks), Sound(y, y.state, 0)
      PROVE  After(y)
  BY <1>5 DEF After, Running, Marked, Unmarked
<1>6. CASE x.state = "chunk_size_start"
  <2> DEFINE y == [x EXCEPT !.cl = Digit(ch), !.state = "chunk_size"]
  <2>1. ch \in IS_HEX => After(y)
    <3> SUFFICES ASSUME ch \in IS_HEX PROVE After(y)
      OBVIOUS
    <3>1. Digit(ch) \in 0..ULLONG_MAX /\ Digit(ch) # ULLONG_MAX
      BY DigitBound, ParserAssumption
    <3>2. /\ Base(y) /\ Running(y) /\ y.marks = x.marks /\ y.state = "chunk_size"
          /\ y.cl = Digit(ch) /\ y.flags = x.flags
      BY <1>2, <3>1 DEF Ready, Base, Running, Typed, Shape, Fields
    <3> HIDE DEF y
    <3>3. Sound(y, y.state, 0)
      BY <1>3, <3>1, <3>2 DEF Sound, States, ChunkStates
    <3> QED
      BY <1>4, <1>5, <1>6, <3>2, <3>3
  <2> QED
    BY <1>2, <1>6, <2>1, ReadyFails DEF Chunk, x
<1>7. CASE x.state \in {"chunk_size", "chunk_parameters"}
  <2>1. x.cl # ULLONG_MAX
    BY <1>2, <1>7 DEF Ready, Sound
  <2>2. \A s \in {"chunk_size_almost_done", "chunk_parameters"} : After(Go(x, s))
    <3> SUFFICES ASSUME NEW s \in {"chunk_size_almost_done", "chunk_parameters"}
                 PROVE  After(Go(x, s))
      OBVIOUS
    <3>1. Sound(x, s, 0) /\ Marked(x.marks, s)
      BY <1>3, <1>4, <1>7, <2>1 DEF Sound, States, ChunkStates, Marked, Unmarked
    <3> QED
      BY <1>2, <3>1, Going DEF Ready, Running
  <2>3. x.state = "chunk_parameters" => After(x)
    <3> SUFFICES ASSUME x.state = "chunk_parameters" PROVE After(x)
      OBVIOUS
    <3>1. Sound(x, x.state, 0)
      BY <1>3, <2>1 DEF Sound, States, ChunkStates
    <3> QED
      BY <1>2, <1>4, <1>5, <3>1 DEF Ready
  <2>4. x.state = "chunk_size" /\ ch \in IS_HEX => After(GrowLength(x, 16, ch))
    BY <1>2, Growing
  <2> QED
    BY <1>2, <1>7, <2>2, <2>3, <2>4, ReadyFails DEF Chunk, x
<1>8. CASE x.state = "chunk_size_almost_done"
  <2> DEFINE d == [x EXCEPT !.nread = 0, !.state = "chunk_data"]
             t == [x EXCEPT !.nread = 0, !.flags = @ \cup {"TRAILING"},
                            !.state = "header_field_start"]
  <2>1. x.cl # ULLONG_MAX
    BY <1>2, <1>8 DEF Ready, Sound
  <2>2. x.cl # 0 => After(d)
    <3> SUFFICES ASSUME x.cl # 0 PROVE After(d)
      OBVIOUS
    <3>1. /\ Base(d) /\ Running(d) /\ d.marks = x.marks /\ d.state = "chunk_data"
          /\ d.cl = x.cl /\ d.flags = x.flags
      BY <1>2 DEF Ready, Base, Running, Typed, Shape, Fields
    <3> HIDE DEF d
    <3>2. Sound(d, d.state, 0)
      BY <1>3, <2>1, <3>1 DEF Sound, States, ChunkStates
    <3> QED
      BY <1>4, <1>5, <1>8, <3>1, <3>2
  <2>3. After(t)
    <3>1. /\ Base(t) /\ Running(t) /\ t.marks = x.marks /\ t.state = "header_field_start"
      BY <1>2 DEF Ready, Base, Running, Typed, Shape, Fields
    <3> HIDE DEF t
    <3>2. Sound(t, t.state, 0)
      BY <3>1 DEF Sound, States, HeaderStates, ChunkStates
    <3> QED
      BY <1>4, <1>5, <1>8, <3>1, <3>2
  <2> QED
    BY <1>2, <1>8, <2>2, <2>3, ReadyFails DEF Chunk, x
<1>9. CASE x.state = "chunk_data"
  <2> DEFINE y == TakeBody(x, "chunk_data_almost_done")
  <2>1. /\ Base(y) /\ Running(y) /\ y.flags = x.flags
        /\ \A k \in Kinds : k # "body" => y.marks[k] = 0
        /\ \/ y.state = "chunk_data_almost_done" /\ y.cl = 0
           \/ y.state = "chunk_data" /\ y.cl \notin {0, ULLONG_MAX}
    BY <1>2, <1>9, Taking
  <2> HIDE DEF y
  <2>2. Sound(y, y.state, 0)
    BY <1>3, <2>1 DEF Sound, States, ChunkStates
  <2>3. "body" \in Kinds /\ y.state \in OpenIn["body"]
    BY <2>1 DEF OpenIn, Kinds
  <2>4. After(y)
    BY <2>1, <2>2, <2>3, OpenAfter
  <2> QED
    BY <1>9, <2>4 DEF Chunk, x, y
<1>10. CASE x.state = "chunk_data_almost_done"
  <2>1. \A k \in Kinds : k # "body" => x.marks[k] = 0
    BY <1>2, <1>10, OneOpen DEF Ready, OpenIn, Kinds
  <2>2. Sound(x, "chunk_data_done", 0)
    BY <1>3 DEF Sound, States, ChunkStates
  <2>3. After(CALLBACK_DATA(Go(x, "chunk_data_done"), "body", x.pos))
    BY <1>2, <2>1, <2>2, EndingAfter DEF Ready, Kinds
  <2> QED
    BY <1>2, <1>10, <2>3, ReadyFails DEF Chunk, x
<1>11. CASE x.state = "chunk_data_done"
  <2> DEFINE y == [x EXCEPT !.nread = 0, !.state = "chunk_size_start"]
  <2>1. /\ Base(y) /\ Running(y) /\ y.marks = x.marks /\ y.state = "chunk_size_start"
        /\ y.nread = 0 /\ y.flags = x.flags
    BY <1>2 DEF Ready, Base, Running, Typed, Shape, Fields
  <2> HIDE DEF y
  <2>2. Sound(y, y.state, 0)
    BY <1>3, <2>1 DEF Sound, States, ChunkStates
  <2>3. After(y)
    BY <1>4, <1>5, <1>11, <2>1, <2>2
  <2> QED
    BY <1>2, <1>11, <2>3, ReadyFails DEF Chunk, x, y
<1> QED
  BY <1>2, <1>6, <1>7, <1>8, <1>9, <1>10, <1>11 DEF ChunkStates

-----------------------------------------------------------------------------
(* A turn, and a call.                                                     *)

LEMMA Steps ==
  ASSUME NEW x, NEW ch, Ready(x), x.pos > 0
  PROVE  After(Step(x, ch))
<1>1. CASE x.state \in StartStates
  BY <1>1, Starting DEF Step, StartStates, StatusStates, UrlStates, UrlBegun, UrlParts,
     SpaceStates, BodyStates, ChunkStates, VersionStates
<1>2. CASE x.state \in StatusStates
  BY <1>2, StatusLines DEF Step, StartStates, StatusStates, UrlStates, UrlBegun, UrlParts,
     SpaceStates, BodyStates, ChunkStates, VersionStates
<1>3. CASE x.state = "req_method"
  BY <1>3, Methods DEF Step, StartStates, StatusStates, UrlStates, UrlBegun, UrlParts,
     SpaceStates, BodyStates, ChunkStates, VersionStates
<1>4. CASE x.state \in UrlStates
  BY <1>4, Urls DEF Step, StartStates, StatusStates, UrlStates, UrlBegun, UrlParts,
     SpaceStates, BodyStates, ChunkStates, VersionStates
<1>5. CASE x.state \in VersionStates
  BY <1>5, Versions DEF Step, StartStates, StatusStates, UrlStates, UrlBegun, UrlParts,
     VersionStates, SpaceStates, BodyStates, ChunkStates
<1>6. CASE x.state \in HeaderStates
  <2>1. x.state = "headers_almost_done" => After(headers_almost_done(x, ch))
    BY NoneOpen, HeadersAlmostDone DEF Ready, OpenIn, Kinds, UrlBegun, UrlParts
  <2> QED
    BY <1>6, <2>1, HeaderNames, HeaderValues DEF Step, HeaderStates, StartStates,
       StatusStates, UrlStates, UrlBegun, UrlParts, SpaceStates, BodyStates, ChunkStates,
       VersionStates
<1>7. CASE x.state \in SpaceStates
  <2>1. Between(x)
    BY <1>7, NoneOpen DEF Ready, Between, SpaceStates, OpenIn, Kinds, UrlBegun, UrlParts
  <2> QED
    BY <1>7, <2>1, HeaderSpaces DEF Step, StartStates, StatusStates, UrlStates, UrlBegun,
       UrlParts, SpaceStates, BodyStates, ChunkStates, VersionStates
<1>8. CASE x.state \in BodyStates
  BY <1>8, Bodies DEF Step, StartStates, StatusStates, UrlStates, UrlBegun, UrlParts,
     SpaceStates, BodyStates, ChunkStates, VersionStates
<1>9. CASE x.state \in ChunkStates
  BY <1>9, Chunks DEF Step, StartStates, StatusStates, UrlStates, UrlBegun, UrlParts,
     SpaceStates, BodyStates, ChunkStates, VersionStates
<1> QED
  BY <1>1, <1>2, <1>3, <1>4, <1>5, <1>6, <1>7, <1>8, <1>9 DEF Ready, Sound, States

LEMMA Turning ==
  ASSUME NEW x0, Good(x0), InTurn(x0), ~x0.halt, x0.pos < Len(x0.d)
  PROVE  After(Turn(x0))
<1> DEFINE x == [x0 EXCEPT !.pos = @ + 1,
                           !.nread = IF PARSING_HEADER(x0.state) THEN @ + 1 ELSE @]
<1>1. /\ Shape(x) /\ x.pos = x0.pos + 1 /\ x.state = x0.state /\ x.marks = x0.marks
      /\ x.errno = x0.errno /\ x.halt = x0.halt /\ x.d = x0.d /\ x.cl = x0.cl
      /\ x.flags = x0.flags /\ x.hs = x0.hs /\ x.asserts = x0.asserts
      /\ x.nread = IF PARSING_HEADER(x0.state) THEN x0.nread + 1 ELSE x0.nread
  BY DEF Good, Typed, Shape, Fields
<1> HIDE DEF x
<1>2. Base(x) /\ Running(x) /\ x.pos > 0
  BY <1>1 DEF Good, InTurn, Base, Running, Typed
<1>3. Sound(x, x.state, 1) /\ Marked(x.marks, x.state)
  BY <1>1, <1>2 DEF Good, Sound, Running, PARSING_HEADER
<1>4. Ready(x)
  BY <1>2, <1>3 DEF Ready
<1>5. After(Step(x, At(x.d, x.pos))) /\ After(Fail(x, "HEADER_OVERFLOW"))
  BY <1>2, <1>4, Steps, ReadyFails
<1>6. x0.pos # Len(x0.d)
  BY DEF InTurn
<1> QED
  BY <1>5, <1>6 DEF Turn, x

\* What an entered call knows of the data it is in the middle of.
LEMMA Entering ==
  ASSUME NEW x, NEW data, Good(x), Waiting(x), x.errno = "OK", Len(data) \in Nat
  PROVE  After(Entered(x, data)) /\ Running(Entered(x, data))
<1> DEFINE y == Entered(x, data)
<1>1. Marked(Resumed(x.state), x.state) /\ DOMAIN Resumed(x.state) = Kinds
  BY DEF Marked, Resumed, OpenIn, Kinds
<1>2. /\ Shape(y) /\ y.state = x.state /\ y.marks = Resumed(x.state) /\ y.d = data
      /\ y.errno = x.errno /\ y.halt = x.halt /\ y.pos = x.pos /\ y.cl = x.cl
      /\ y.flags = x.flags /\ y.hs = x.hs /\ y.asserts = x.asserts /\ y.nread = x.nread
  BY <1>1 DEF Entered, Good, Typed, Shape, Fields
<1> HIDE DEF y
<1>3. Base(y) /\ Running(y)
  BY <1>2 DEF Good, Waiting, Base, Running, Typed
<1>4. Sound(y, y.state, 0) /\ Marked(y.marks, y.state)
  BY <1>1, <1>2 DEF Good, Sound
<1> QED
  BY <1>2, <1>3, <1>4 DEF After, y

\* Of the data that is open when a call ends there is at most one piece.
LEMMA AtMostOne ==
  ASSUME NEW x, Marked(x.marks, x.state)
  PROVE  Cardinality({k \in Kinds : x.marks[k] # 0}) <= 1
<1> DEFINE open == {k \in Kinds : x.marks[k] # 0}
<1>1. CASE open = {}
  BY <1>1, FS_EmptySet
<1>2. CASE open # {}
  <2>1. PICK k : k \in open
    BY <1>2
  <2>2. x.state \in OpenIn[k]
    BY <2>1 DEF Marked
  <2>3. open = {k}
    BY <2>1, <2>2, OneOpen
  <2> HIDE DEF open
  <2>4. Cardinality(open) = 1
    BY <2>3, FS_Singleton
  <2> QED
    BY <2>4 DEF open
<1> QED
  BY <1>1, <1>2

\* What a call leaves: the parser without the call's locals.
LEMMA Returning ==
  ASSUME NEW x, Base(x), x.errno = "OK" => Sound(x, x.state, 0)
  PROVE  Good(Returned(x)) /\ Waiting(Returned(x))
<1> DEFINE y == Returned(x)
<1>1. /\ Shape(y) /\ y.state = x.state /\ y.marks = NoMarks /\ y.d = "" /\ y.pos = 0
      /\ y.errno = x.errno /\ ~y.halt /\ y.cl = x.cl /\ y.flags = x.flags
      /\ y.hs = x.hs /\ y.asserts = x.asserts /\ y.nread = x.nread
  BY DEF Returned, Base, Typed, Shape, Fields, NoMarks
<1> HIDE DEF y
<1>2. Good(y) /\ Waiting(y)
  BY <1>1 DEF Good, Waiting, Base, Typed, Sound, Marked, NoMarks
<1> QED
  BY <1>1, <1>2 DEF y

\* A call that saw all its bytes closes what is open.
LEMMA Leaving ==
  ASSUME NEW x, Base(x), Running(x), Sound(x, x.state, 0), Marked(x.marks, x.state)
  PROVE  Good(Returned(Leftover(x))) /\ Waiting(Returned(Leftover(x)))
<1> DEFINE e == Len(x.d) + 1
           c == Check(x, Cardinality({k \in Kinds : x.marks[k] # 0}) <= 1)
           d(y, k) == CALLBACK_DATA(y, k, e)
           Ended(y) == Base(y) /\ Running(y) /\ y.state = x.state /\ Sound(y, x.state, 0)
           last == d(d(d(d(d(c, "field"), "value"), "url"), "body"), "status")
           l == [last EXCEPT !.ret = Len(x.d)]
           r == Returned(l)
<1>1. Ended(c)
  BY AtMostOne DEF Check, Base, Running, Typed, Shape, Fields, Sound
<1>2. ASSUME NEW y, NEW k \in Kinds, Ended(y)
      PROVE  Ended(d(y, k))
  <2> DEFINE z == d(y, k)
  <2>1. Shape(z) /\ Kept(y, z) /\ z.state = y.state
    BY <1>2, Closed
  <2> HIDE DEF z
  <2>2. Ended(z)
    BY <1>2, <2>1 DEF Base, Running, Typed, Kept, Sound
  <2> QED
    BY <2>2 DEF z
<1> HIDE DEF c, d, Ended
<1>3. Ended(last)
  BY <1>1, <1>2 DEF Kinds
<1> HIDE DEF last
<1>4. Base(l) /\ Running(l) /\ l.state = x.state /\ Sound(l, x.state, 0)
  BY <1>3 DEF Ended, Base, Running, Typed, Shape, Fields, Sound
<1>5. l = Leftover(x)
  BY DEF Leftover, c, d, last
<1> HIDE DEF l
<1> QED
  BY <1>4, <1>5, Returning DEF After, Running

\* The end of the connection.
LEMMA AtEnding ==
  ASSUME NEW x, After(x), Running(x)
  PROVE  Good(Returned(AtEnd(x))) /\ Waiting(Returned(AtEnd(x)))
<1> DEFINE y == AtEnd(x)
           n == Notify(x)
<1>n. /\ Shape(n) /\ Kept(x, n) /\ n.state = x.state /\ n.marks = x.marks
  BY DEF Notify, Check, After, Base, Running, Typed, Shape, Kept, Fields
<1> HIDE DEF n
<1>1. /\ Shape(y) /\ y.state = x.state /\ y.marks = x.marks /\ y.hs = x.hs
      /\ y.nread = x.nread /\ y.cl = x.cl /\ y.flags = x.flags
      /\ y.asserts = x.asserts /\ y.d = x.d /\ y.pos = x.pos
      /\ y.errno = "OK" => y.errno = x.errno
  BY <1>n DEF AtEnd, message_complete_cb, After, Base, Typed, Shape, Kept, Fields, n
<1> HIDE DEF y
<1>2. Base(y) /\ (y.errno = "OK" => Sound(y, y.state, 0))
  BY <1>1 DEF After, Base, Typed, Sound
<1> QED
  BY <1>2, Returning DEF y

-----------------------------------------------------------------------------
(* The invariant and the theorems.                                         *)

LEMMA NoneGiven == 0 \in 0..ULLONG_MAX /\ 0 \in Nat
BY ParserAssumption

LEMMA IInvInit == Init => IInv
<1> SUFFICES ASSUME NEW t \in Types, parser = http_parser_init(t, ""), ~inside
             PROVE  IInv
  BY DEF Init
<1>1. DOMAIN parser = Fields /\ DOMAIN NoMarks = Kinds
  BY DEF http_parser_init, Fields, NoMarks
<1>2. /\ parser.asserts = TRUE /\ parser.errno = "OK" /\ parser.pos = 0 /\ ~parser.halt
      /\ parser.cl = 0 /\ parser.nread = 0 /\ parser.marks = NoMarks
  BY DEF http_parser_init
<1>3. parser.state \in {"start_req", "start_res", "start_req_or_res"}
  <2> DEFINE s == CASE t = "request" -> "start_req"
                    [] t = "response" -> "start_res"
                    [] OTHER -> "start_req_or_res"
  <2>1. s \in {"start_req", "start_res", "start_req_or_res"}
    OBVIOUS
  <2>2. parser.state = s
    BY DEF http_parser_init
  <2> QED
    BY <2>1, <2>2
<1>4. Typed(parser)
  <2>1. Shape(parser)
    BY <1>1, <1>2 DEF Shape
  <2> QED
    BY <1>2, <2>1, NoneGiven DEF Typed
<1>5. Sound(parser, parser.state, 0) /\ Marked(parser.marks, parser.state)
  BY <1>2, <1>3 DEF Sound, States, StartStates, ChunkStates, Marked, NoMarks
<1> QED
  BY <1>2, <1>4, <1>5 DEF IInv, Good, Waiting

LEMMA AfterGood ==
  ASSUME NEW x, After(x)
  PROVE  Good(x) /\ InTurn(x)
BY DEF After, Base, Good, InTurn

LEMMA IInvNext == IInv /\ [Next]_vars => IInv'
<1> SUFFICES ASSUME IInv, [Next]_vars PROVE IInv'
  OBVIOUS
<1>1. ASSUME NEW data \in Pieces, Call(data) PROVE IInv'
  <2>1. Good(parser) /\ Waiting(parser)
    BY <1>1 DEF IInv, Call
  <2>2. CASE parser.errno = "OK"
    <3>1. After(parser') /\ inside'
      BY <1>1, <2>1, <2>2, Entering, CallsAssumption DEF Call
    <3> QED
      BY <3>1, AfterGood DEF IInv
  <2>3. CASE parser.errno # "OK"
    <3>1. parser' = [parser EXCEPT !.ret = 0] /\ ~inside'
      BY <1>1, <2>3 DEF Call
    <3>2. Good(parser') /\ Waiting(parser')
      BY <2>1, <2>3, <3>1 DEF Good, Waiting, Typed, Shape, Fields
    <3> QED
      BY <3>1, <3>2 DEF IInv
  <2> QED
    BY <2>2, <2>3
<1>2. CASE Eof
  <2>1. Good(parser) /\ Waiting(parser)
    BY <1>2 DEF IInv, Eof
  <2>2. After(Entered(parser, "")) /\ Running(Entered(parser, ""))
    BY <1>2, <2>1, Entering, CallsAssumption DEF Eof
  <2>3. Good(parser') /\ Waiting(parser') /\ ~inside'
    BY <1>2, <2>2, AtEnding DEF Eof
  <2> QED
    BY <2>3 DEF IInv
<1>3. CASE Loop
  <2>1. After(parser') /\ inside'
    BY <1>3, Turning DEF Loop, IInv
  <2> QED
    BY <2>1, AfterGood DEF IInv
<1>4. CASE Return
  <2>1. Good(parser) /\ InTurn(parser) /\ Base(parser)
    BY <1>4 DEF Return, IInv, Good, InTurn, Base
  <2>2. Good(parser') /\ Waiting(parser') /\ ~inside'
    <3>1. CASE parser.halt
      BY <1>4, <2>1, <3>1, Returning DEF Return, Good
    <3>2. CASE ~parser.halt
      <4>1. Running(parser) /\ Sound(parser, parser.state, 0)
            /\ Marked(parser.marks, parser.state)
        BY <2>1, <3>2 DEF Good, InTurn, Running
      <4> QED
        BY <1>4, <2>1, <3>2, <4>1, Leaving DEF Return
    <3> QED
      BY <3>1, <3>2
  <2> QED
    BY <2>2 DEF IInv
<1>5. CASE UNCHANGED vars
  BY <1>5 DEF vars, IInv, Good, InTurn, Waiting
<1> QED
  BY <1>1, <1>2, <1>3, <1>4, <1>5 DEF Next

\* No assert of http_parser_execute fails, whatever bytes arrive, however they are
\* cut into calls and wherever a call ends, as long as the message has room for
\* its data (AssertsHold).
THEOREM AssertsNeverFail == Spec => []AssertsHold
<1>1. IInv => AssertsHold
  BY DEF IInv, Good, AssertsHold
<1> QED
  BY <1>1, IInvInit, IInvNext, PTL DEF Spec

\* What was an error stays one, and nothing is added to the message it was in or
\* to the list of messages (error:, line 1904): every turn of the loop is taken
\* without an error, and a call with an earlier error returns at once.
THEOREM ErrorsAreFinal == Spec => ErrorIsFinal
<1> DEFINE Same == /\ parser'.errno = parser.errno
                   /\ parser'.m = parser.m
                   /\ parser'.list = parser.list
<1>1. IInv /\ [Next]_vars => [parser.errno # "OK" => Same]_vars
  <2> SUFFICES ASSUME IInv, Next, parser.errno # "OK" PROVE Same
    BY DEF vars
  <2>1. Shape(parser)
    BY DEF IInv, Good, Typed
  <2>2. ASSUME NEW data \in Pieces, Call(data) PROVE Same
    BY <2>1, <2>2 DEF Call, Shape, Fields
  <2>3. ASSUME Loop PROVE Same
    BY <2>3 DEF Loop, IInv, InTurn
  <2>4. ASSUME Return PROVE Same
    <3>1. parser' = Returned(parser)
      BY <2>4 DEF Return, IInv, InTurn
    <3> QED
      BY <2>1, <3>1 DEF Returned, Shape, Fields
  <2> QED
    BY <2>2, <2>3, <2>4 DEF Next, Eof
<1> QED
  BY <1>1, IInvInit, IInvNext, PTL DEF Spec, ErrorIsFinal
=============================================================================
