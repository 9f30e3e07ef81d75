------------------------------- MODULE MCHttp -------------------------------
(***************************************************************************)
(* The streams that TLC cuts into pieces: well-formed requests and         *)
(* responses, rendered here from the messages they carry, responses as the *)
(* program itself writes them, and streams that break the rules.  A        *)
(* behavior is that of one stream, or of any calls on a parser.            *)
(***************************************************************************)
EXTENDS HttpMessage

Methods == {"DELETE", "GET", "HEAD", "POST", "PUT", "CONNECT", "OPTIONS", "TRACE",
            "COPY", "LOCK", "MKCOL", "MOVE", "PROPFIND", "PROPPATCH", "SEARCH",
            "UNLOCK", "REPORT", "MKACTIVITY", "CHECKOUT", "MERGE", "M-SEARCH",
            "NOTIFY", "SUBSCRIBE", "UNSUBSCRIBE", "PATCH", "PURGE", "MKCALENDAR"}

Msg(method, url, headers, body) ==
  [method |-> method, status_code |-> 0, url |-> url, headers |-> headers,
   body |-> body]
Reply(code, headers, body) ==
  [method |-> "DELETE", status_code |-> code, url |-> "", headers |-> headers,
   body |-> body]

Concat(f(_), seq) == FoldLeft(LAMBDA a, e : a \o f(e), "", seq)

\* The bytes of a message with nl at the end of each line.
Raw(first, m, body, nl) ==
  LET line(h) == h[1] \o ": " \o h[2] \o nl
  IN first \o nl \o Concat(line, m.headers) \o nl \o body
Render(m) == Raw(m.method \o " " \o m.url \o " HTTP/1.1", m, m.body, "\r\n")

Stream(type, bytes, expect) ==
  [type |-> type, bytes |-> bytes, expect |-> expect, junk |-> "", eof |-> 0]
Good(seq) == Stream("request", Concat(Render, seq), seq)

UrlOf(method) == IF method = "CONNECT" THEN "a:1" ELSE "/u"
EachMethod == {Good(<<Msg(m, UrlOf(m), <<>>, "")>>) : m \in Methods}

Host   == <<"Host", "h.x:8080">>
Length(n) == <<"Content-Length", n>>
Chunked == <<"Transfer-Encoding", "chunked">>

Post(body) == Msg("POST", "/p?q=1#f", <<Host, Length(ToString(Len(body)))>>, body)
Pipelined == Good(<<Post("ab"), Post("cdefgh"), Msg("GET", "/", <<Host>>, "")>>)
ChunkMsg == Msg("POST", "/c", <<Chunked>>, "abcdefghijkl")
ChunkedStream ==
  Stream("request",
         Raw("POST /c HTTP/1.1", ChunkMsg,
             "2\r\nab\r\n0a;x=1\r\ncdefghijkl\r\n0\r\n\r\n", "\r\n")
           \o Render(Post("z")),
         <<ChunkMsg, Post("z")>>)
TrailerMsg == Msg("PUT", "/t", <<Chunked, <<"Vary", "v">>>>, "a")
Trailers ==
  Stream("request",
         Raw("PUT /t HTTP/1.1", [TrailerMsg EXCEPT !.headers = <<Chunked>>],
             "1\r\na\r\n0\r\nVary: v\r\n\r\n", "\r\n"),
         <<TrailerMsg>>)
OtherMsg == Msg("GET", "http://u@h:80/a?b", <<<<"X", "">>, <<"Connection", "keep-alive">>,
                <<"Conten", "k">>, <<"Upgrad", "k">>>>, "")
BareNewlines == Stream("request", Raw("GET http://u@h:80/a?b HTTP/1.1", OtherMsg, "", "\n"),
                       <<OtherMsg>>)
Folded == Stream("request",
                 "GET / HTTP/1.1\r\nX: a\r\n b\r\nY:\r\n\tc\r\nZ:\r\n\r\n",
                 <<Msg("GET", "/", <<<<"X", "a b">>, <<"Y", "c">>, <<"Z", "">>>>, "")>>)
Close == Msg("GET", "/", <<<<"Connection", "close">>>>, "")
AfterClose == Stream("request", Render(Close) \o "\r\n" \o Render(Close), <<Close>>)
Old == Stream("request", "GET /old\r\n\r\nGET", <<Msg("GET", "/old", <<>>, "")>>)
Upgrade == <<"Upgrade", "web">>
Upgraded == Good(<<Msg("GET", "/w", <<Upgrade>>, ""), Post("b")>>)

\* A request as HttpRequest writes it, and responses as HttpResponse does.
Written(m) == [m EXCEPT !.headers = SetHeader(SetHeader(m, "host", "h"), "X-Y", "z").headers]
OwnRequest ==
  LET m == SetBody(Written(NewRequest("/own")), "body")
  IN [Stream("request", message_to_string(m, "request"), <<Sent(m)>>) EXCEPT !.junk = "x"]
Responses ==
  {LET m == SetBody([NewResponse EXCEPT !.status_code = c], b)
       sent == [Sent(m) EXCEPT !.headers = <<<<"Server", "sails ">>>> \o Tail(@)]
   IN Stream(t, message_to_string(m, "response") \o message_to_string(m, "response"),
             <<sent, sent>>) :
     c \in {200, 404, 505}, b \in {"404", "a response body"},
     t \in {"response", "both"}}
UntilEof ==
  [Stream("response", "HTTP/1.0 200 OK\r\nVia: x\r\n\r\nall of it",
          <<Reply(200, <<<<"Via", "x">>>>, "all of it")>>) EXCEPT !.eof = 1]
\* As many headers as there is room for, and one more than that.
Letters == <<"b", "d", "e", "f", "g", "h", "i", "j", "k", "l", "m", "n", "o", "q">>
Many(n) == [i \in 1..n |-> <<Letters[i], Letters[n + 1 - i]>>]
Filled == {Good(<<Msg("GET", "/", Many(n), ""), Post("b")>>) :
             n \in {MAX_HEADERS, MAX_HEADERS + 1}}
NoContent ==
  Stream("both", "HTTP/1.1 204\r\n\r\nHTTP/1.1 304 \n\n",
         <<Reply(204, <<>>, ""), Reply(304, <<>>, "")>>)
HeadOrReply == Stream("both", "HEAD /h HTTP/1.1\r\n\r\n", <<Msg("HEAD", "/h", <<>>, "")>>)

\* What breaks a rule delivers nothing.
Bad ==
  {Stream(s[1], s[2], <<>>) : s \in
    {<<"request", "G">>, <<"request", "GOT / HTTP/1.1\r\n\r\n">>,
     <<"request", "get / HTTP/1.1\r\n\r\n">>,
     <<"request", "GET x HTTP/1.1\r\n\r\n">>, <<"request", "GET h:/ HTTP/1.1\r\n\r\n">>,
     <<"request", "GET http://a@@c/ HTTP/1.1\r\n\r\n">>,
     <<"request", "GET / HTTP/0.1\r\n\r\n">>, <<"request", "GET / HTTP/1.1234\r\n\r\n">>,
     <<"request", "GET / FTP/1.1\r\n\r\n">>, <<"request", "GET / HTTP/1.1\rX">>,
     <<"request", "GET / HTTP/1.1\r\nA B: c\r\n\r\n">>,
     <<"request", "GET / HTTP/1.1\r\nA: c\r\rX">>,
     <<"request", "POST / HTTP/1.1\r\nContent-Length: 1x\r\n\r\na">>,
     <<"request", "POST / HTTP/1.1\r\nContent-Length: 4097\r\n\r\na">>,
     <<"request", "POST / HTTP/1.1\r\nContent-Length: 1\r\n 2\r\n\r\na">>,
     <<"request", "POST / HTTP/1.1\r\nTransfer-Encoding: chunked\r\n\r\n1001\r\na\r\n0\r\n\r\n">>,
     <<"request", "POST / HTTP/1.1\r\nTransfer-Encoding: chunked\r\n\r\ng\r\n">>,
     <<"request", "POST / HTTP/1.1\r\nTransfer-Encoding: chunked\r\n\r\n1\r\nab\r\n0\r\n\r\n">>,
     <<"request", "PUT /t HTTP/1.1\r\nTransfer-Encoding: chunked\r\n\r\n0\r\nConnection: close\r\n\r\n">>,
     <<"request", "GET / HTTP/1.1\r\nX: " \o Lowers \o Lowers \o Lowers \o Lowers
                  \o Lowers \o Lowers \o Lowers \o Lowers \o Lowers \o Lowers
                  \o "\r\n\r\n">>,
     <<"request", "GET / HTTP/1.1\r\n"
                  \o Concat(LAMBDA h : h[1] \o ": " \o Lowers \o "\r\n", Many(9))>>,
     <<"response", "HTTP/1.1 2000 OK\r\n\r\n">>, <<"response", "HTTP/1.1 OK\r\n\r\n">>,
     <<"response", "HTTX/1.1 200\r\n\r\n">>, <<"response", "ICY 200\r\n">>,
     <<"both", "HO">>, <<"both", "Q">>}}

MCStreams ==
  EachMethod \cup Responses \cup Filled \cup Bad
  \cup {Pipelined, ChunkedStream, Trailers, BareNewlines, Folded, AfterClose, Old,
        Upgraded, OwnRequest, UntilEof, NoContent, HeadOrReply}

-----------------------------------------------------------------------------
MCTypes == {"request", "response", "both"}

\* Lines that open, describe and close a message, pieces of lines, and bytes
\* that mean something different in every state.
MCPieces == {"POST / HTTP/1.1\r\n", "CONNECT a:1 HTTP/1.1\nUpgrade: w", "HTTP/1.0 200 O",
             "Transfer-Encoding: chunked\r\n", "Connection: close\r\nContent-Length: 2\r\n",
             "\r\n", "\n", "1\r\na", "0\r\n", " 2;", "K: "}

NoStream == Stream("both", "", <<>>)
MCInit == StreamInit \/ (Init /\ stream = NoStream /\ fed = 0 /\ single = parser)
MCNext == \/ stream # NoStream /\ StreamNext
          \/ stream = NoStream /\ Next /\ UNCHANGED <<stream, fed, single>>
MCSpec == MCInit /\ [][MCNext]_streamVars
=============================================================================
