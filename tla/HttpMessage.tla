----------------------------- MODULE HttpMessage -----------------------------
(***************************************************************************)
(* HttpRequest and HttpResponse of net/http.cc as writers: headers are set *)
(* by name, a body sets its length, and message_to_string puts the message *)
(* into bytes.  Times are left out: "Date" and "Expires" are one word.     *)
(***************************************************************************)
EXTENDS HttpParser

ReasonPhrase ==
  (100 :> "Continue" @@ 101 :> "Switching Protocols" @@ 200 :> "OK" @@
   201 :> "Created" @@ 202 :> "Accepted" @@
   203 :> "Non-Authoritative Information" @@ 204 :> "No Content" @@
   205 :> "Reset Content" @@ 206 :> "Partial Content" @@
   300 :> "Multiple Choices" @@ 301 :> "Moved Permanently" @@ 302 :> "Found" @@
   303 :> "See Other" @@ 304 :> "Not Modified" @@ 305 :> "Use Proxy" @@
   307 :> "Temporary Redirect" @@ 400 :> "Bad Request" @@
   401 :> "Unauthorized" @@ 402 :> "Payment Required" @@ 403 :> "Forbidden" @@
   404 :> "Not Found" @@ 405 :> "Method Not Allowed" @@
   406 :> "Not Acceptable" @@ 407 :> "Proxy Authentication Required" @@
   408 :> "Request Timeout" @@ 409 :> "Conflict" @@ 410 :> "Gone" @@
   411 :> "Length Required" @@ 412 :> "Precondition Failed" @@
   413 :> "Request Entity Too Large" @@ 414 :> "Request-URI Too Long" @@
   415 :> "Unsupported Media Type" @@
   416 :> "Requested Range Not Satisfiable" @@ 417 :> "Expectation Failed" @@
   500 :> "Internal Server Error" @@ 501 :> "Not Implemented" @@
   502 :> "Bad Gateway" @@ 503 :> "Service Unavailable" @@
   504 :> "Gateway Timeout" @@ 505 :> "HTTP Version Not Supported")

Lower(s) == FoldLeft(LAMBDA a, c : a \o LOWER(c), "",
                     [i \in 1..Len(s) |-> At(s, i)])

\* SetHeader: the name is compared without regard to case; the old one stays.
SetHeader(m, key, value) ==
  LET same == {i \in 1..Len(m.headers) : Lower(m.headers[i][1]) = Lower(key)}
  IN IF key = "" THEN m
     ELSE IF same = {} THEN [m EXCEPT !.headers = Append(@, <<key, value>>)]
     ELSE [m EXCEPT !.headers = [i \in 1..Len(m.headers) |->
                                   IF i \in same THEN <<m.headers[i][1], value>>
                                   ELSE m.headers[i]]]

SetBody(m, body) ==
  IF Len(body) > MAX_BODY_SIZE THEN m
  ELSE SetHeader([m EXCEPT !.body = body], "Content-Length", ToString(Len(body)))

SetAll(m, headers) ==
  FoldLeft(LAMBDA a, h : SetHeader(a, h[1], h[2]), m, headers)

NewRequest(url) ==
  SetAll([http_message_init EXCEPT !.method = "GET", !.url = url],
         <<<<"Accept", "text/html">>, <<"Accept-Encoding", "gzip">>,
           <<"Accept-Language", "en-US">>, <<"Connection", "keep-alive">>,
           <<"Content-Length", "0">>, <<"Host", "">>, <<"User-Agent", "Mozilla">>>>)

NewResponse ==
  SetAll([http_message_init EXCEPT !.status_code = 200],
         <<<<"Server", " sails ">>, <<"Date", "now">>,
           <<"Content-Type", "text/html;charset=UTF-8">>, <<"Expires", "now">>,
           <<"Connection", "keep-alive">>,
           <<"Cache-Control", "public, max-age=0">>, <<"Content-Length", "0">>>>)

message_to_string(m, type) ==
  LET line == IF type = "request" THEN "GET " \o m.url \o " HTTP/1.1"
              ELSE "HTTP/1.1 " \o ToString(m.status_code) \o " "
                   \o ReasonPhrase[m.status_code]
  IN FoldLeft(LAMBDA a, h : a \o h[1] \o ":" \o h[2] \o "\r\n",
              line \o "\r\n", m.headers) \o "\r\n" \o m.body \o "\r\n"
=============================================================================
