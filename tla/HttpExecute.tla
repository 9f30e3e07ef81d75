---------------------------- MODULE HttpExecute ----------------------------
(***************************************************************************)
(* What http_parser_execute (net/http_parser.cc) does with a byte, and the *)
(* callbacks of the server (net/http.cc).  A parser is a record: the       *)
(* fields of http_parser, the ParserFlag it points to (m, list, flag) and, *)
(* while a call runs, the call's locals (d, pos, marks, ret, halt).        *)
(* Data is kept whole whatever its size; "whole" says that all of it has    *)
(* fitted the arrays of http_message, and what does not, ends the program   *)
(* (the assert of strlncat) or overruns them: nothing is claimed after it.  *)
(* HttpCalls runs the parser turn by turn, HttpParser call by call.        *)
(***************************************************************************)
EXTENDS HttpUrl, FiniteSetsExt

CONSTANTS
  ULLONG_MAX,            \* the largest content_length, "none given"
  HTTP_MAX_HEADER_SIZE,  \* bytes of a header that are accepted
  MAX_HEADERS, MAX_PATH_SIZE, MAX_ELEMENT_SIZE, MAX_BODY_SIZE
                         \* headers of a message, and what a url, a name, value
                         \* or status, and a body have to stay below

ASSUME ParserAssumption == /\ ULLONG_MAX \in Nat /\ ULLONG_MAX > 16
                           /\ HTTP_MAX_HEADER_SIZE \in Nat

-----------------------------------------------------------------------------
(* Messages and the state a parser starts in.                              *)

Kinds   == {"field", "value", "url", "body", "status"}
NoMarks == [k \in Kinds |-> 0]

http_message_init ==
  [method |-> "DELETE", status_code |-> 0, url |-> "", status |-> "",
   headers |-> <<>>, last |-> "NONE", body |-> "", final |-> FALSE,
   keep |-> TRUE, host |-> "", port |-> 0, path |-> "", query |-> ""]

http_parser_init(t, junk) ==
  [type |-> t, state |-> CASE t = "request" -> "start_req"
                           [] t = "response" -> "start_res"
                           [] OTHER -> "start_req_or_res",
   hs |-> "general", index |-> 0, nread |-> 0, cl |-> 0, flags |-> {},
   method |-> "DELETE", errno |-> "OK", upgrade |-> FALSE, major |-> 0,
   minor |-> 0, code |-> 0, junk |-> junk, asserts |-> TRUE,
   m |-> http_message_init, list |-> <<>>, flag |-> 0,
   whole |-> TRUE,
   d |-> "", pos |-> 0, marks |-> NoMarks, ret |-> 0, halt |-> FALSE]

\* States in which the bytes count as header.
PARSING_HEADER(s) ==
  s \notin {"chunk_data", "chunk_data_almost_done", "chunk_data_done",
            "body_identity", "body_identity_eof", "message_done"}

http_message_needs_eof(x) ==
  /\ x.type # "request"
  /\ x.code \div 100 # 1 /\ x.code \notin {204, 304}
  /\ "SKIPBODY" \notin x.flags
  /\ "CHUNKED" \notin x.flags /\ x.cl = ULLONG_MAX

http_should_keep_alive(x) ==
  /\ IF x.major > 0 /\ x.minor > 0 THEN "CONNECTION_CLOSE" \notin x.flags
     ELSE "CONNECTION_KEEP_ALIVE" \in x.flags
  /\ ~http_message_needs_eof(x)

-----------------------------------------------------------------------------
(* The callbacks of net/http.cc.                                           *)

\* parser_url: host, port, path and query of a complete request.  Writing the
\* terminating zero of the query string hits the path.
HostUrl(m) ==
  LET hosts == SelectSeq(m.headers, LAMBDA h : h[1] = "Host")
  IN "http://" \o (IF hosts = <<>> THEN "" ELSE hosts[1][2]) \o m.url
parser_url(m, junk) ==
  LET located(u) ==
        [m EXCEPT !.port = IF u.port # "" THEN Number(u.port) ELSE 80,
                  !.host = IF u.host # "" THEN u.host ELSE @,
                  !.query = u.query,
                  !.path = IF u.query # "" /\ Len(u.query) < Len(u.path)
                           THEN Part(u.path, 1, Len(u.query)) ELSE u.path]
      result(r) == IF r.ok THEN located(r.u) ELSE m
  IN result(http_parser_parse_url(HostUrl(m), FALSE, junk))

\* The data callbacks: the message with data s of kind k.
WithData(x, k, s) ==
  LET n == Len(x.m.headers)
  IN CASE k = "field" /\ x.m.last # "FIELD" ->
            [x.m EXCEPT !.headers = Append(@, <<s, "">>), !.last = "FIELD"]
       [] k = "field" /\ x.m.last = "FIELD" -> [x.m EXCEPT !.headers[n][1] = @ \o s]
       [] k = "value" -> [x.m EXCEPT !.headers[n][2] = @ \o s, !.last = "VALUE"]
       [] k = "url" -> [x.m EXCEPT !.url = @ \o s]
       [] k = "status" -> [x.m EXCEPT !.status = @ \o s]
       [] k = "body" -> [x.m EXCEPT !.body = @ \o s, !.final = x.state = "message_done"]

\* The arrays of the message hold the data of kind k.
Fits(m, k) ==
  LET header == m.headers[Len(m.headers)]
  IN CASE k = "field" -> /\ Len(m.headers) <= MAX_HEADERS
                         /\ Len(header[1]) < MAX_ELEMENT_SIZE
       [] k = "value" -> Len(header[2]) < MAX_ELEMENT_SIZE
       [] k = "url" -> Len(m.url) < MAX_PATH_SIZE
       [] k = "status" -> Len(m.status) < MAX_ELEMENT_SIZE
       [] k = "body" -> Len(m.body) < MAX_BODY_SIZE

OnData(x, k, s) ==
  LET m == WithData(x, k, s)
  IN [x EXCEPT !.m = m, !.whole = @ /\ Fits(m, k),
               !.flag = IF k = "body" /\ x.m.final THEN 1 ELSE @]

headers_complete_cb(x) ==
  [x EXCEPT !.m = [@ EXCEPT !.method = x.method, !.status_code = x.code,
                            !.keep = http_should_keep_alive(x)]]

\* Variant: the message stays where the next one is put together.
complete_keeps_message(x, r) == [x EXCEPT !.list = Append(@, parser_url(x.m, x.junk))]

\* An assert of the parser: what it says has held so far.
Check(x, cond) == [x EXCEPT !.asserts = @ /\ cond]

\* The assert of CALLBACK_NOTIFY_; message_begin_cb does nothing else.
Notify(x) == Check(x, x.errno = "OK")

\* message_complete_cb; r is what the parser returns if it fails.
message_complete_cb(x0, r) ==
  LET x == Notify(x0)
  IN IF \/ x.m.keep # http_should_keep_alive(x)
        \/ x.m.body # "" /\ x.state = "message_done" /\ ~x.m.final
     THEN [x EXCEPT !.flag = 1, !.errno = "CB_message_complete",
                    !.ret = r, !.halt = TRUE]
     ELSE [x EXCEPT !.list = Append(@, parser_url(x.m, x.junk)),
                    !.whole = @ /\ Len(HostUrl(x.m)) < MAX_PATH_SIZE,
                    !.m = http_message_init]

-----------------------------------------------------------------------------
(* The macros.                                                             *)

Go(x, s) == [x EXCEPT !.state = s]

\* goto error
Fail(x, e) == [x EXCEPT !.errno = e, !.ret = x.pos - 1, !.halt = TRUE]

\* STRICT_CHECK, and on to the next state
Want(x, c, want, s) == IF c = want THEN Go(x, s) ELSE Fail(x, "STRICT")

MARK(x, k) == [x EXCEPT !.marks[k] = IF @ = 0 THEN x.pos ELSE @]

\* CALLBACK_DATA_ with the data before position e
CALLBACK_DATA(x, k, e) ==
  IF x.marks[k] = 0 THEN x
  ELSE [OnData(Check(x, x.errno = "OK"), k, Part(x.d, x.marks[k], e - 1))
          EXCEPT !.marks[k] = 0]

start_state(x) == IF x.type = "request" THEN "start_req" ELSE "start_res"

\* state = NEW_MESSAGE(), then the notification
Complete(x) ==
  message_complete_cb(Go(x, IF http_should_keep_alive(x) THEN start_state(x)
                            ELSE "dead"), x.pos)

\* A decimal number of at most three digits; first says that c is its first
\* digit.
Decimal(x, c, field, first, s, e) ==
  LET n == Digit(c) + IF first THEN 0 ELSE 10 * x[field]
  IN IF c \notin IS_NUM THEN Fail(x, e)
     ELSE IF n > 999 THEN Fail([x EXCEPT ![field] = n], e)
     ELSE [x EXCEPT ![field] = n, !.state = s]

\* content_length grows by a digit, up to a limit that keeps it in its width.
GrowLength(x, base, c) ==
  IF (ULLONG_MAX - base) \div base < x.cl THEN Fail(x, "INVALID_CONTENT_LENGTH")
  ELSE [x EXCEPT !.cl = (base * @ + Digit(c)) % (ULLONG_MAX + 1)]

-----------------------------------------------------------------------------
(* The first line.                                                         *)

NoBody(x) == [x EXCEPT !.flags = {}, !.cl = ULLONG_MAX]

FirstMethod == [C |-> "CONNECT", D |-> "DELETE", G |-> "GET", H |-> "HEAD",
                L |-> "LOCK", M |-> "MKCOL", N |-> "NOTIFY", O |-> "OPTIONS",
                P |-> "POST", R |-> "REPORT", S |-> "SUBSCRIBE", T |-> "TRACE",
                U |-> "UNLOCK"]

start_req(x, c) ==
  LET y == NoBody(x)
  IN IF c \notin DOMAIN FirstMethod THEN Fail(y, "INVALID_METHOD")
     ELSE Notify([y EXCEPT !.method = FirstMethod[c], !.index = 1,
                           !.state = "req_method"])

Start(x, c) ==
  LET y == NoBody(x)
  IN CASE x.state = "dead" ->
            IF c \in {"\r", "\n"} THEN x ELSE Fail(x, "CLOSED_CONNECTION")
       [] x.state \in {"start_req_or_res", "start_req"} /\ c \in {"\r", "\n"} -> x
       [] x.state = "start_req_or_res" /\ c = "H" -> Notify(Go(y, "res_or_resp_H"))
       [] x.state = "start_req_or_res" ->
            start_req([y EXCEPT !.type = "request", !.state = "start_req"], c)
       [] x.state = "res_or_resp_H" ->
            IF c = "T" THEN [x EXCEPT !.type = "response", !.state = "res_HT"]
            ELSE IF c # "E" THEN Fail(x, "INVALID_CONSTANT")
            ELSE [x EXCEPT !.type = "request", !.method = "HEAD", !.index = 2,
                           !.state = "req_method"]
       [] x.state = "start_res" ->
            CASE c = "H" -> Notify(Go(y, "res_H"))
              [] c \in {"\r", "\n"} -> Notify(y)
              [] OTHER -> Fail(y, "INVALID_CONSTANT")
       [] x.state = "start_req" -> start_req(x, c)

StatusLine(x, c) ==
  CASE x.state = "res_H" -> Want(x, c, "T", "res_HT")
    [] x.state = "res_HT" -> Want(x, c, "T", "res_HTT")
    [] x.state = "res_HTT" -> Want(x, c, "P", "res_HTTP")
    [] x.state = "res_HTTP" -> Want(x, c, "/", "res_first_http_major")
    [] x.state = "res_http_major" /\ c = "." -> Go(x, "res_first_http_minor")
    [] x.state \in {"res_first_http_major", "res_http_major"} ->
         Decimal(x, c, "major", x.state = "res_first_http_major",
                 "res_http_major", "INVALID_VERSION")
    [] x.state = "res_http_minor" /\ c = " " -> Go(x, "res_first_status_code")
    [] x.state \in {"res_first_http_minor", "res_http_minor"} ->
         Decimal(x, c, "minor", x.state = "res_first_http_minor",
                 "res_http_minor", "INVALID_VERSION")
    [] x.state = "res_first_status_code" /\ c = " " -> x
    [] x.state = "res_status_code" /\ c = " " -> Go(x, "res_status_start")
    [] x.state \in {"res_status_code", "res_status_start"} /\ c = "\r" ->
         Go(x, "res_line_almost_done")
    [] x.state \in {"res_status_code", "res_status_start"} /\ c = "\n" ->
         Go(x, "header_field_start")
    [] x.state \in {"res_first_status_code", "res_status_code"} ->
         Decimal(x, c, "code", x.state = "res_first_status_code",
                 "res_status_code", "INVALID_STATUS")
    [] x.state = "res_status_start" ->
         [MARK(x, "status") EXCEPT !.state = "res_status", !.index = 0]
    [] x.state = "res_status" /\ c = "\r" ->
         CALLBACK_DATA(Go(x, "res_line_almost_done"), "status", x.pos)
    [] x.state = "res_status" /\ c = "\n" ->
         CALLBACK_DATA(Go(x, "header_field_start"), "status", x.pos)
    [] x.state = "res_status" -> x
    [] x.state = "res_line_almost_done" -> Want(x, c, "\n", "header_field_start")

\* <<method so far, index, character, method it turns out to be>>
Switches ==
  {<<"CONNECT", 1, "H", "CHECKOUT">>, <<"CONNECT", 2, "P", "COPY">>,
   <<"MKCOL", 1, "O", "MOVE">>, <<"MKCOL", 1, "E", "MERGE">>,
   <<"MKCOL", 1, "-", "M-SEARCH">>, <<"MKCOL", 2, "A", "MKACTIVITY">>,
   <<"MKCOL", 3, "A", "MKCALENDAR">>, <<"SUBSCRIBE", 1, "E", "SEARCH">>,
   <<"POST", 1, "R", "PROPFIND">>, <<"POST", 1, "U", "PUT">>,
   <<"POST", 1, "A", "PATCH">>, <<"PUT", 2, "R", "PURGE">>,
   <<"UNLOCK", 2, "S", "UNSUBSCRIBE">>, <<"PROPFIND", 4, "P", "PROPPATCH">>}

Method(x, c) ==
  LET next == IF x.index < Len(x.method) THEN At(x.method, x.index + 1) ELSE ""
      sw   == {s \in Switches : <<s[1], s[2], s[3]>> = <<x.method, x.index, c>>}
  IN CASE c = " " /\ next = "" ->
            [x EXCEPT !.state = "req_spaces_before_url", !.index = @ + 1]
       [] c = next -> [x EXCEPT !.index = @ + 1]
       [] sw # {} -> [x EXCEPT !.method = (CHOOSE s \in sw : TRUE)[4],
                               !.index = @ + 1]
       [] OTHER -> Fail(x, "INVALID_METHOD")

UrlBegun == {"req_schema", "req_schema_slash", "req_schema_slash_slash",
             "req_server_start"}
UrlParts == {"req_server", "req_server_with_at", "req_path",
             "req_query_string_start", "req_query_string",
             "req_fragment_start", "req_fragment"}

Url(x, c) ==
  LET y == IF x.state # "req_spaces_before_url" THEN x
           ELSE IF x.method = "CONNECT" THEN Go(MARK(x, "url"), "req_server_start")
           ELSE MARK(x, "url")
      s == parse_url_char(y.state, c)
  IN CASE x.state = "req_spaces_before_url" /\ c = " " -> x
       [] x.state \in UrlParts /\ c = " " ->
            CALLBACK_DATA(Go(x, "req_http_start"), "url", x.pos)
       [] x.state \in UrlParts /\ c \in {"\r", "\n"} ->
            CALLBACK_DATA(Go([x EXCEPT !.major = 0, !.minor = 9],
                             IF c = "\r" THEN "req_line_almost_done"
                             ELSE "header_field_start"),
                          "url", x.pos)
       [] OTHER -> IF s = "dead" THEN Fail(Go(y, s), "INVALID_URL") ELSE Go(y, s)

Version(x, c) ==
  CASE x.state = "req_http_start" ->
         CASE c = "H" -> Go(x, "req_http_H")
           [] c = " " -> x
           [] OTHER -> Fail(x, "INVALID_CONSTANT")
    [] x.state = "req_http_H" -> Want(x, c, "T", "req_http_HT")
    [] x.state = "req_http_HT" -> Want(x, c, "T", "req_http_HTT")
    [] x.state = "req_http_HTT" -> Want(x, c, "P", "req_http_HTTP")
    [] x.state = "req_http_HTTP" -> Want(x, c, "/", "req_first_http_major")
    [] x.state = "req_first_http_major" /\ c = "0" -> Fail(x, "INVALID_VERSION")
    [] x.state = "req_http_major" /\ c = "." -> Go(x, "req_first_http_minor")
    [] x.state \in {"req_first_http_major", "req_http_major"} ->
         Decimal(x, c, "major", x.state = "req_first_http_major",
                 "req_http_major", "INVALID_VERSION")
    [] x.state = "req_http_minor" /\ c = "\r" -> Go(x, "req_line_almost_done")
    [] x.state = "req_http_minor" /\ c = "\n" -> Go(x, "header_field_start")
    [] x.state \in {"req_first_http_minor", "req_http_minor"} ->
         Decimal(x, c, "minor", x.state = "req_first_http_minor",
                 "req_http_minor", "INVALID_VERSION")
    [] x.state = "req_line_almost_done" ->
         IF c # "\n" THEN Fail(x, "LF_EXPECTED") ELSE Go(x, "header_field_start")

-----------------------------------------------------------------------------
(* Headers.  hs is header_state, without the "h_" of the source.           *)

\* The words that are matched character by character, each in the header state
\* that does it, and the state that follows when the word is complete.
Words == [matching_connection |-> "connection",
          matching_proxy_connection |-> "proxy-connection",
          matching_content_length |-> "content-length",
          matching_transfer_encoding |-> "transfer-encoding",
          matching_upgrade |-> "upgrade",
          matching_transfer_encoding_chunked |-> "chunked",
          matching_connection_keep_alive |-> "keep-alive",
          matching_connection_close |-> "close"]
Matching == DOMAIN Words

\* Those that match the name of a header, and those that have matched it.
NameWords == {"matching_connection", "matching_proxy_connection",
              "matching_content_length", "matching_transfer_encoding",
              "matching_upgrade"}
Names == {"connection", "content_length", "transfer_encoding", "upgrade"}
Matched == [matching_connection |-> "connection",
            matching_proxy_connection |-> "connection",
            matching_content_length |-> "content_length",
            matching_transfer_encoding |-> "transfer_encoding",
            matching_upgrade |-> "upgrade",
            matching_transfer_encoding_chunked |-> "transfer_encoding_chunked",
            matching_connection_keep_alive |-> "connection_keep_alive",
            matching_connection_close |-> "connection_close"]

\* Variant: the header's bytes go on counting.
headers_done_counts(x) ==
  CASE "CHUNKED" \in x.flags -> Go(x, "chunk_size_start")
    [] x.cl \notin {0, ULLONG_MAX} -> Go(x, "body_identity")
    [] OTHER -> Complete(x)

headers_done(x0) ==
  LET x    == [x0 EXCEPT !.nread = 0]
      ends == \/ x.upgrade
              \/ "SKIPBODY" \in x.flags
              \/ "CHUNKED" \notin x.flags /\ x.cl = 0
              \/ /\ "CHUNKED" \notin x.flags /\ x.cl = ULLONG_MAX
                 /\ x.type = "request" \/ ~http_message_needs_eof(x)
      stop(y) == IF x.upgrade /\ ~y.halt THEN [y EXCEPT !.halt = TRUE, !.ret = x.pos]
                 ELSE y
  IN CASE ends -> stop(Complete(x))
       [] ~ends /\ "CHUNKED" \in x.flags -> Go(x, "chunk_size_start")
       [] ~ends /\ "CHUNKED" \notin x.flags ->
            Go(x, IF x.cl # ULLONG_MAX THEN "body_identity" ELSE "body_identity_eof")

headers_almost_done(x, ch) ==
  LET y == [x EXCEPT !.state = "headers_done",
                     !.upgrade = "UPGRADE" \in x.flags \/ x.method = "CONNECT"]
  IN IF ch # "\n" THEN Fail(x, "STRICT")
     ELSE IF "TRAILING" \in x.flags THEN Complete(x)
     ELSE headers_done(headers_complete_cb(y))

\* One more character of the word that header_state is matching.
Match(x, c) ==
  LET w == Words[x.hs]
      i == x.index + 1
  IN [x EXCEPT !.index = i,
               !.hs = CASE i > Len(w) -> "general"
                        [] i = Len(w) -> "general"
                        [] At(w, i + 1) # c -> "general"
                        [] i = Len(w) - 1 -> Matched[@]
                        [] OTHER -> @]

\* "c", "co" and "con" are common to two names.
MatchCon(x, c) ==
  [x EXCEPT !.index = @ + 1,
            !.hs = CASE x.hs = "C" /\ c = "o" -> "CO"
                     [] x.hs = "CO" /\ c = "n" -> "CON"
                     [] x.hs = "CON" /\ c = "n" -> "matching_connection"
                     [] x.hs = "CON" /\ c = "t" -> "matching_content_length"
                     [] OTHER -> "general"]

\* A character of a name, its first one included.
NameByte(x, ch) ==
  LET c == LOWER(ch)
      begun == [MARK(x, "field") EXCEPT
                  !.index = 0, !.state = "header_field",
                  !.hs = CASE c = "c" -> "C"
                           [] c = "p" -> "matching_proxy_connection"
                           [] c = "t" -> "matching_transfer_encoding"
                           [] c = "u" -> "matching_upgrade"
                           [] OTHER -> "general"]
  IN IF ch \notin TOKEN THEN Fail(x, "INVALID_HEADER_TOKEN")
     ELSE IF x.state = "header_field_start" THEN begun
     ELSE IF x.hs \in {"C", "CO", "CON"} THEN MatchCon(x, c)
     ELSE IF x.hs \in NameWords THEN Match(x, c)
     ELSE IF x.hs \in Names \cup {"general"} THEN [x EXCEPT !.hs = "general"]
     ELSE Check(x, FALSE)

HeaderName(x, ch) ==
  CASE x.state = "header_field_start" /\ ch = "\r" ->
         Go(x, "headers_almost_done")
    [] x.state = "header_field_start" /\ ch = "\n" ->
         headers_almost_done(Go(x, "headers_almost_done"), ch)
    [] x.state = "header_field" /\ ch = ":" ->
         CALLBACK_DATA(Go(x, "header_value_discard_ws"), "field", x.pos)
    [] OTHER -> NameByte(x, ch)

\* The first character of a value, or of its continuation on a new line.
header_value_start(x, ch) ==
  LET y == [MARK(x, "value") EXCEPT !.state = "header_value", !.index = 0]
      c == LOWER(ch)
  IN CASE x.hs = "content_length" /\ ch \notin IS_NUM -> Fail(y, "INVALID_CONTENT_LENGTH")
       [] x.hs = "content_length" /\ ch \in IS_NUM -> [y EXCEPT !.cl = Digit(ch)]
       [] OTHER ->
            [y EXCEPT !.flags = @ \cup IF x.hs = "upgrade" THEN {"UPGRADE"} ELSE {},
                      !.hs = CASE @ = "transfer_encoding" /\ c = "c" -> "matching_transfer_encoding_chunked"
                               [] @ = "connection" /\ c = "k" -> "matching_connection_keep_alive"
                               [] @ = "connection" /\ c = "c" -> "matching_connection_close"
                               [] OTHER -> "general"]

\* Between the name and the value, and after the value.
HeaderSpace(x, ch) ==
  LET blank == ch \in {" ", "\t"}
  IN CASE x.state = "header_value_discard_ws" /\ blank -> x
       [] x.state = "header_value_discard_ws" /\ ch = "\r" ->
            Go(x, "header_value_discard_ws_almost_done")
       [] x.state = "header_value_discard_ws" /\ ch = "\n" ->
            Go(x, "header_value_discard_lws")
       [] x.state \in {"header_value_discard_ws", "header_value_start"} ->
            header_value_start(x, ch)
       [] x.state = "header_value_discard_ws_almost_done" ->
            Want(x, ch, "\n", "header_value_discard_lws")
       [] x.state = "header_almost_done" -> Want(x, ch, "\n", "header_value_lws")
       [] x.state = "header_value_discard_lws" /\ blank ->
            Go(x, "header_value_discard_ws")
       [] x.state = "header_value_discard_lws" ->
            HeaderName(CALLBACK_DATA(Go(MARK(x, "value"), "header_field_start"),
                                     "value", x.pos), ch)
       [] x.state = "header_value_lws" /\ blank ->
            header_value_start(Go(x, "header_value_start"), ch)
       [] OTHER ->
            HeaderName([x EXCEPT
                          !.state = "header_field_start",
                          !.flags = @ \cup
                             CASE x.hs = "connection_keep_alive" -> {"CONNECTION_KEEP_ALIVE"}
                               [] x.hs = "connection_close" -> {"CONNECTION_CLOSE"}
                               [] x.hs = "transfer_encoding_chunked" -> {"CHUNKED"}
                               [] OTHER -> {}], ch)

HeaderValue(x, ch) ==
  CASE ch = "\r" -> CALLBACK_DATA(Go(x, "header_almost_done"), "value", x.pos)
    [] ch = "\n" ->
         HeaderSpace(CALLBACK_DATA(Go(x, "header_almost_done"), "value", x.pos), ch)
    [] x.hs = "content_length" /\ ch # " " ->
         IF ch \in IS_NUM THEN GrowLength(x, 10, ch)
         ELSE Fail(x, "INVALID_CONTENT_LENGTH")
    [] x.hs \in Matching \ NameWords -> Match(x, LOWER(ch))
    [] x.hs \in {"general", "content_length"} -> x
    [] x.hs \in {"transfer_encoding_chunked", "connection_keep_alive",
                   "connection_close"} /\ ch = " " -> x
    [] x.hs \in {"connection", "transfer_encoding"} -> Check(x, FALSE)
    [] OTHER -> [x EXCEPT !.hs = "general"]

-----------------------------------------------------------------------------
(* Bodies.                                                                 *)

\* As much of the body as is there, up to content_length bytes.
TakeBody(x, s) ==
  LET to_read == IF x.cl < Len(x.d) - x.pos + 1 THEN x.cl
                 ELSE Len(x.d) - x.pos + 1
      y == Check(MARK(x, "body"), x.cl \notin {0, ULLONG_MAX})
  IN [y EXCEPT !.cl = @ - to_read, !.pos = @ + to_read - 1,
               !.state = IF y.cl = to_read THEN s ELSE @]

Body(x, ch) ==
  CASE x.state = "body_identity" ->
         LET y == TakeBody(x, "message_done")
         IN IF y.cl > 0 THEN y
            ELSE Complete(CALLBACK_DATA(y, "body", y.pos + 1))
    [] x.state = "body_identity_eof" -> [MARK(x, "body") EXCEPT !.pos = Len(x.d)]
    [] x.state = "message_done" -> Complete(x)

Chunk(x0, ch) ==
  LET x == Check(x0, /\ "CHUNKED" \in x0.flags
                     /\ x0.state = "chunk_size_start" => x0.nread = 1
                     /\ x0.state = "chunk_data_almost_done" => x0.cl = 0)
  IN CASE x.state = "chunk_size_start" ->
            IF ch \in IS_HEX THEN [x EXCEPT !.cl = Digit(ch), !.state = "chunk_size"]
            ELSE Fail(x, "INVALID_CHUNK_SIZE")
       [] x.state \in {"chunk_size", "chunk_parameters"} /\ ch = "\r" ->
            Go(x, "chunk_size_almost_done")
       [] x.state = "chunk_parameters" -> x
       [] x.state = "chunk_size" ->
            CASE ch \in IS_HEX -> GrowLength(x, 16, ch)
              [] ch \in {";", " "} -> Go(x, "chunk_parameters")
              [] OTHER -> Fail(x, "INVALID_CHUNK_SIZE")
       [] x.state = "chunk_size_almost_done" ->
            IF ch # "\n" THEN Fail(x, "STRICT")
            ELSE IF x.cl # 0 THEN [x EXCEPT !.nread = 0, !.state = "chunk_data"]
            ELSE [x EXCEPT !.nread = 0, !.flags = @ \cup {"TRAILING"},
                           !.state = "header_field_start"]
       [] x.state = "chunk_data" -> TakeBody(x, "chunk_data_almost_done")
       [] x.state = "chunk_data_almost_done" ->
            IF ch # "\r" THEN Fail(x, "STRICT")
            ELSE CALLBACK_DATA(Go(x, "chunk_data_done"), "body", x.pos)
       [] x.state = "chunk_data_done" ->
            IF ch # "\n" THEN Fail(x, "STRICT")
            ELSE [x EXCEPT !.nread = 0, !.state = "chunk_size_start"]

-----------------------------------------------------------------------------
(* http_parser_execute.                                                    *)

StartStates == {"dead", "start_req_or_res", "res_or_resp_H", "start_res", "start_req"}
StatusStates == {"res_H", "res_HT", "res_HTT", "res_HTTP", "res_first_http_major",
  "res_http_major", "res_first_http_minor", "res_http_minor",
  "res_first_status_code", "res_status_code", "res_status_start", "res_status",
  "res_line_almost_done"}
SpaceStates == {"header_value_discard_ws", "header_value_discard_ws_almost_done",
  "header_value_discard_lws", "header_value_start", "header_value_lws",
  "header_almost_done"}
BodyStates == {"body_identity", "body_identity_eof", "message_done"}
ChunkStates == {"chunk_size_start", "chunk_size", "chunk_parameters",
  "chunk_size_almost_done", "chunk_data", "chunk_data_almost_done",
  "chunk_data_done"}
UrlStates == {"req_spaces_before_url"} \cup UrlBegun \cup UrlParts
VersionStates == {"req_http_start", "req_http_H", "req_http_HT", "req_http_HTT",
  "req_http_HTTP", "req_first_http_major", "req_http_major", "req_first_http_minor",
  "req_http_minor", "req_line_almost_done"}

\* The byte in the state it meets.  "goto reexecute_byte" is a call of what the
\* state entered does with the same byte.
Step(x, ch) ==
  CASE x.state \in StartStates -> Start(x, ch)
    [] x.state \in StatusStates -> StatusLine(x, ch)
    [] x.state = "req_method" -> Method(x, ch)
    [] x.state \in UrlStates -> Url(x, ch)
    [] x.state \in {"header_field_start", "header_field"} -> HeaderName(x, ch)
    [] x.state \in SpaceStates -> HeaderSpace(x, ch)
    [] x.state = "header_value" -> HeaderValue(x, ch)
    [] x.state = "headers_almost_done" -> headers_almost_done(x, ch)
    [] x.state \in BodyStates -> Body(x, ch)
    [] x.state \in ChunkStates -> Chunk(x, ch)
    [] x.state \in VersionStates -> Version(x, ch)
    [] OTHER -> Fail(Check(x, FALSE), "INVALID_INTERNAL_STATE")

\* One turn of the loop over the bytes.
Turn(x0) ==
  LET x == [x0 EXCEPT !.pos = @ + 1,
                      !.nread = IF PARSING_HEADER(x0.state) THEN @ + 1 ELSE @]
  IN CASE x0.pos = Len(x0.d) -> x0
       [] PARSING_HEADER(x0.state) /\ x.nread > HTTP_MAX_HEADER_SIZE ->
            Fail(x, "HEADER_OVERFLOW")
       [] OTHER -> Step(x, At(x.d, x.pos))

\* Variant: a call in the middle of a status does not know it.
ResumedButStatus(s) ==
  [k \in Kinds |-> IF \/ k = "field" /\ s = "header_field"
                      \/ k = "value" /\ s = "header_value"
                      \/ k = "url" /\ s \in UrlBegun \cup UrlParts
                   THEN 1 ELSE 0]

\* The data that a call finds itself in the middle of.
Resumed(s) ==
  [k \in Kinds |-> IF CASE k = "field" -> s = "header_field"
                        [] k = "value" -> s = "header_value"
                        [] k = "url" -> s \in UrlBegun \cup UrlParts
                        [] k = "status" -> s = "res_status"
                        [] OTHER -> FALSE
                   THEN 1 ELSE 0]

AtEnd(x) ==
  CASE x.state = "body_identity_eof" -> message_complete_cb(x, 0)
    [] x.state \in StartStates \ {"res_or_resp_H"} -> x
    [] OTHER -> [x EXCEPT !.errno = "INVALID_EOF_STATE", !.ret = 1]

\* The end of a call that saw all its bytes.
Leftover(x) ==
  LET cb(y, k) == CALLBACK_DATA(y, k, Len(x.d) + 1)
      y == Check(x, Cardinality({k \in Kinds : x.marks[k] # 0}) <= 1)
  IN [cb(cb(cb(cb(cb(y, "field"), "value"), "url"), "body"), "status") EXCEPT
        !.ret = Len(x.d)]

\* What a call starts with, and what it leaves of its locals.
Entered(p, data) == [p EXCEPT !.d = data, !.ret = 0, !.marks = Resumed(p.state)]
Returned(x) == [x EXCEPT !.d = "", !.pos = 0, !.marks = NoMarks, !.halt = FALSE]
=============================================================================
