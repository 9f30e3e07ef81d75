------------------------------- MODULE HttpUrl -------------------------------
(***************************************************************************)
(* Characters and URLs of net/http_parser.cc: parse_url_char, which the    *)
(* parser of messages shares, http_parser_parse_url and http_parse_host,   *)
(* in strict mode (HTTP_PARSER_STRICT is 1).  A string is a sequence of    *)
(* characters; a state has the name of the source without its "s_".        *)
(***************************************************************************)
EXTENDS Naturals, Sequences, SequencesExt

\* Character i of s, counted from 1.
At(s, i) == SubSeq(s, i, i)

\* The characters of a string, as a set.
Chars(s) == {At(s, i) : i \in 1..Len(s)}

\* The string from position i to position j.
Part(s, i, j) == IF j < i THEN "" ELSE SubSeq(s, i, j)

Lowers   == "abcdefghijklmnopqrstuvwxyz"
Uppers   == "ABCDEFGHIJKLMNOPQRSTUVWXYZ"
IS_ALPHA == Chars(Lowers) \cup Chars(Uppers)
\* The ways to write a digit of value d.
DigitsOf(d) == {At("0123456789abcdef", d + 1), At("0123456789ABCDEF", d + 1)}
IS_NUM   == UNION {DigitsOf(d) : d \in 0..9}
IS_HEX   == UNION {DigitsOf(d) : d \in 0..15}
IS_USERINFO_CHAR == IS_ALPHA \cup IS_NUM \cup Chars("-_.!~*'()%;:&=+$,")
IS_HOST_CHAR     == IS_ALPHA \cup IS_NUM \cup Chars(".-")
\* Printable characters but the two quotes and the backslash.
Printable   == IS_ALPHA \cup IS_NUM \cup Chars("!#$%&'()*+,-./:;<=>?@[]^_{|}~")
IS_URL_CHAR == Printable \ {"#", "?"}
TOKEN       == Printable \ Chars("(),/:;<=>?@[]{}")

\* The value of a decimal or hexadecimal digit (unhex).
Digit(c) == CHOOSE d \in 0..15 : c \in DigitsOf(d)

\* LOWER(c), where it matters: for letters.
LOWER(c) == IF c \in Chars(Uppers)
            THEN At(Lowers, CHOOSE i \in 1..26 : At(Uppers, i) = c)
            ELSE c

-----------------------------------------------------------------------------

\* One character of a URL.
parse_url_char(s, ch) ==
  LET server == CASE ch = "/" -> "req_path"
                  [] ch = "?" -> "req_query_string_start"
                  [] ch = "@" -> IF s = "req_server_with_at" THEN "dead"
                                 ELSE "req_server_with_at"
                  [] ch \in IS_USERINFO_CHAR \cup {"[", "]"} -> "req_server"
                  [] OTHER -> "dead"
      rest(self, more) == CASE ch \in IS_URL_CHAR -> more
                            [] ch \in DOMAIN self -> self[ch]
                            [] OTHER -> "dead"
  IN CASE s = "req_spaces_before_url" /\ ch \in {"/", "*"} -> "req_path"
       [] s \in {"req_spaces_before_url", "req_schema"} /\ ch \in IS_ALPHA
            -> "req_schema"
       [] s = "req_schema" /\ ch = ":" -> "req_schema_slash"
       [] s = "req_schema_slash" /\ ch = "/" -> "req_schema_slash_slash"
       [] s = "req_schema_slash_slash" /\ ch = "/" -> "req_server_start"
       [] s \in {"req_server_with_at", "req_server_start", "req_server"}
            -> server
       [] s = "req_path"
            -> rest([c \in {"?", "#"} |-> IF c = "?" THEN "req_query_string_start"
                                          ELSE "req_fragment_start"], s)
       [] s \in {"req_query_string_start", "req_query_string"}
            -> rest([c \in {"?", "#"} |-> IF c = "?" THEN "req_query_string"
                                          ELSE "req_fragment_start"],
                    "req_query_string")
       [] s \in {"req_fragment_start", "req_fragment"}
            -> rest([c \in {"?", "#"} |-> IF c = "?" THEN "req_fragment" ELSE s],
                    "req_fragment")
       [] OTHER -> "dead"

\* The field that a state belongs to; delimiters belong to none.
FieldOf(s) == CASE s = "req_schema" -> "schema"
                [] s \in {"req_server", "req_server_with_at"} -> "host"
                [] s = "req_path" -> "path"
                [] s = "req_query_string" -> "query"
                [] s = "req_fragment" -> "fragment"
                [] OTHER -> "none"

NoFields == [f \in {"schema", "host", "port", "path", "query", "fragment",
                    "userinfo"} |-> ""]

\* One character of the part between schema and path.
http_parse_host_char(s, ch) ==
  CASE s \in {"userinfo", "userinfo_start"} /\ ch = "@" -> "host_start"
    [] s \in {"userinfo", "userinfo_start"} /\ ch \in IS_USERINFO_CHAR
         -> "userinfo"
    [] s = "host_start" /\ ch = "[" -> "host_v6_start"
    [] s \in {"host_start", "host"} /\ ch \in IS_HOST_CHAR -> "host"
    [] s \in {"host", "host_v6_end"} /\ ch = ":" -> "host_port_start"
    [] s = "host_v6" /\ ch = "]" -> "host_v6_end"
    [] s \in {"host_v6", "host_v6_start"} /\ ch \in IS_HEX \cup {":", "."}
         -> "host_v6"
    [] s \in {"host_port", "host_port_start"} /\ ch \in IS_NUM -> "host_port"
    [] OTHER -> "host_dead"

\* Splits u.host into user, host and port.  Entering a field again starts it
\* anew, except the host's.
http_parse_host(u, found_at) ==
  LET step(a, ch) ==
        LET s == http_parse_host_char(a.s, ch)
            f == CASE s \in {"host", "host_v6"} -> "host"
                   [] s = "host_port" -> "port"
                   [] s = "userinfo" -> "userinfo"
                   [] OTHER -> "none"
        IN IF a.s = "host_dead" THEN a
           ELSE IF f = "none" THEN [a EXCEPT !.s = s]
           ELSE [s |-> s,
                 u |-> [a.u EXCEPT ![f] = IF s # a.s /\ f # "host" THEN ch
                                          ELSE @ \o ch]]
      result(end) == [ok |-> end.s \in {"host", "host_v6_end", "host_port"},
                      u |-> end.u]
  IN result(FoldLeft(step,
                     [s |-> IF found_at THEN "userinfo_start" ELSE "host_start",
                      u |-> [u EXCEPT !.host = ""]],
                     [i \in 1..Len(u.host) |-> At(u.host, i)]))

\* The number a string of digits stands for.
Number(s) == FoldLeft(LAMBDA n, c : 10 * n + Digit(c), 0,
                      [i \in 1..Len(s) |-> At(s, i)])

\* http_parser_parse_url.  With a schema but no host the host is read from
\* uninitialised memory (u->field_data): junk says what is found there, "" if
\* it is no host.
http_parser_parse_url(buf, is_connect, junk) ==
  LET step(a, ch) ==
        LET s == parse_url_char(a.s, ch)
            f == FieldOf(s)
        IN CASE a.s = "dead" -> a
             [] f = "none" -> [a EXCEPT !.s = s]
             [] OTHER -> [s |-> s, at |-> a.at \/ s = "req_server_with_at",
                          u |-> [a.u EXCEPT ![f] = @ \o ch]]
      hosted(u, found_at) ==
        IF u.schema # "" \/ u.host # "" THEN http_parse_host(u, found_at)
        ELSE [ok |-> TRUE, u |-> u]
      result(end, host) ==
        [ok |-> /\ end.s # "dead"
                /\ host.ok
                /\ is_connect =>
                     {f \in DOMAIN host.u : host.u[f] # ""} = {"host", "port"}
                /\ Number(host.u.port) <= 65535,
         u  |-> host.u]
      split(end) ==
        result(end, hosted([end.u EXCEPT !.host = IF end.u.schema # "" /\ @ = ""
                                                  THEN junk ELSE @], end.at))
  IN split(FoldLeft(step, [s |-> IF is_connect THEN "req_server_start"
                                 ELSE "req_spaces_before_url",
                           at |-> FALSE, u |-> NoFields],
                    [i \in 1..Len(buf) |-> At(buf, i)]))
=============================================================================
