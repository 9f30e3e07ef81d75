-------------------------------- MODULE Whois --------------------------------
(***************************************************************************)
(* example/whois/whois.cc: the server for a domain from two tables, the    *)
(* query, and the referrals it follows.  A domain is its labels; a server  *)
(* is <<code, name>>, code being the first character when it is below 16   *)
(* (0 for a plain name).  A reply is what servers may say: two lines, and  *)
(* a referral to a server or none.                                         *)
(***************************************************************************)
EXTENDS Naturals, Sequences, SequencesExt

CONSTANTS Domains,    \* domains that are asked for, besides one under every suffix of tld_serv
          Referred,   \* servers that a reply may refer to
          Room,       \* the lines that fit into whoisinfo
          MaxQueries  \* bound: queries of a run; referrals may go round for ever

VARIABLE s  \* [pc, domain, server, asked, info]; asked are the servers a query was sent to

\* Of tld_serv.h, in the order of the file, every row whose suffix ends in another row's and that
\* row: a domain that two rows fit is one of theirs, so that the order of the others is no matter.
\* And a row of every kind of server.  new_gtlds.h has no suffix that ends in another.
Rows(names, top, server) == [i \in 1..Len(names) |-> << <<names[i], top>>, server>>]
Row(suffix, server)      == << <<suffix, server>> >>
Named(name) == <<0, name>>
Central == Named("whois.centralnic.net")
Crsnic  == <<4, "whois.verisign-grs.com">>
None    == <<3, "">>
tld_serv ==
  Rows(<<"br", "cn", "de", "eu", "gb">>, "com", Central) \o Rows(<<"gb">>, "net", Central) \o
  Rows(<<"gr", "hu">>, "com", Central) \o Rows(<<"in">>, "net", Central) \o
  Rows(<<"no", "qc", "ru", "sa", "se">>, "com", Central) \o Rows(<<"se">>, "net", Central) \o
  Rows(<<"uk">>, "com", Central) \o Rows(<<"uk">>, "net", Central) \o
  Rows(<<"us", "uy", "za", "jpn", "web">>, "com", Central) \o Row(<<"com">>, Crsnic) \o
  Rows(<<"za">>, "net", Named("whois.za.net")) \o Row(<<"net">>, Crsnic) \o
  Rows(<<"eu">>, "org", Named("whois.eu.org")) \o Rows(<<"za">>, "org", Named("whois.za.org")) \o
  Row(<<"org">>, Named("whois.pir.org")) \o Row(<<"mil">>, None) \o
  Rows(<<"e164">>, "arpa", Named("whois.ripe.net")) \o Rows(<<"in-addr">>, "arpa", <<12, "">>) \o
  Row(<<"arpa">>, Named("whois.iana.org")) \o Row(<<"ar">>, <<1, "http://www.nic.ar/">>) \o
  Rows(<<"priv">>, "at", Named("whois.nic.priv.at")) \o Row(<<"at">>, Named("whois.nic.at")) \o
  Row(<<"bz">>, <<8, "">>) \o
  Rows(<<"co">>, "ca", Named("whois.co.ca")) \o Row(<<"ca">>, Named("whois.cira.ca")) \o
  Rows(<<"edu">>, "cn", Named("whois.edu.cn")) \o Row(<<"cn">>, Named("whois.cnnic.cn")) \o
  Rows(<<"uk">>, "co", Named("whois.uk.co")) \o Row(<<"co">>, Named("whois.nic.co")) \o
  Rows(<<"edu">>, "ph", <<1, "http://services.ph.net/dns/query.pl">>) \o Rows(<<"gov">>, "ph", None) \o
  Row(<<"ph">>, <<1, "http://www.dot.ph/whois">>) \o
  Rows(<<"co">>, "pl", Named("whois.co.pl")) \o Row(<<"pl">>, Named("whois.dns.pl")) \o
  Rows(<<"edu">>, "ru", Named("whois.informika.ru")) \o Row(<<"ru">>, Named("whois.tcinet.ru")) \o
  Rows(<<"biz">>, "ua", Named("whois.biz.ua")) \o Rows(<<"co">>, "ua", Named("whois.co.ua")) \o
  Rows(<<"pp">>, "ua", Named("whois.pp.ua")) \o Row(<<"ua">>, Named("whois.ua")) \o
  Rows(<<"ac">>, "uk", Named("whois.ja.net")) \o Rows(<<"bl", "british-library">>, "uk", None) \o
  Rows(<<"gov">>, "uk", Named("whois.ja.net")) \o
  Rows(<<"icnet", "jet", "mod", "nhs", "nls", "parliament", "police">>, "uk", None) \o
  Row(<<"uk">>, Named("whois.nic.uk")) \o
  Rows(<<"fed">>, "us", Named("whois.nic.gov")) \o Row(<<"us">>, Named("whois.nic.us")) \o
  Rows(<<"com">>, "uy", <<1, "https://nic.anteldata.com.uy/dns/consultaWhois/whois.action">>) \o
  Row(<<"uy">>, Named("whois.nic.org.uy")) \o
  Rows(<<"ac">>, "za", Named("whois.ac.za")) \o Rows(<<"alt">>, "za", Named("whois.alt.za")) \o
  Rows(<<"co">>, "za", Named("whois.registry.net.za")) \o Rows(<<"gov">>, "za", Named("whois.gov.za")) \o
  Rows(<<"net">>, "za", Named("net-whois.registry.net.za")) \o
  Rows(<<"org">>, "za", Named("org-whois.registry.net.za")) \o
  Rows(<<"web">>, "za", Named("web-whois.registry.net.za")) \o Row(<<"za">>, None)
new_gtlds == << <<"app">>, <<"bank">> >>

\* A domain that is as long as the suffix is compared from the character before it on; that is
\* never a dot for the argument of a program.
isSubDomain(domain, tld) == Len(domain) > Len(tld) /\ IsSuffix(tld, domain)
Hits(domain) == LET rows == tld_serv IN {i \in 1..Len(rows) : isSubDomain(domain, rows[i][1])}
NewHits(domain) == {i \in 1..Len(new_gtlds) : isSubDomain(domain, new_gtlds[i])}
Least(S) == CHOOSE i \in S : \A j \in S : i <= j

\* is_tld, is_new_gtld and get_query_server; the server of a new one is whois.nic.<tld>.
\* Variant: the last row that fits.
ServerLast(domain) ==
  LET h == Hits(domain) IN tld_serv[CHOOSE i \in h : \A j \in h : j <= i][2]
ServerOf(domain) == tld_serv[Least(Hits(domain))][2]
get_query_server(domain) ==
  IF Hits(domain) # {} THEN ServerOf(domain)
  ELSE IF NewHits(domain) # {} THEN <<0, new_gtlds[Least(NewHits(domain))][1]>>
  ELSE <<3, "unknown">>

Idle == [pc |-> "idle", domain |-> <<>>, server |-> <<3, "">>, asked |-> <<>>, info |-> <<>>]
Init == s = Idle

\* whois
whois(d) == /\ s.pc = "idle"
            /\ s' = [Idle EXCEPT !.domain = d, !.server = get_query_server(d),
                                 !.pc = IF get_query_server(d) = <<3, "unknown">> THEN "none" ELSE "handle"]

\* A reply is added to whoisinfo as far as it fits.
Added(x, server) ==
  LET lines == x.info \o << <<server, 1>>, <<server, 2>> >>
  IN [x EXCEPT !.asked = Append(@, server), !.info = SubSeq(lines, 1, IF Len(lines) < Room THEN Len(lines) ELSE Room)]

\* query_crsnic: the server a registry refers to, or the registry again; query_afilias: the server
\* it refers to, or what the caller has, which is the code.  connect_host ends the program when no
\* host has the name.
query_crsnic(name) == {<<0, r>> : r \in Referred \cup {name}}
query_afilias      == {<<0, r>> : r \in Referred} \cup {<<8, "">>}
connect_host(server) == server[1] = 0
Ask(x, server) == [x EXCEPT !.server = server, !.pc = IF connect_host(server) THEN "ask" ELSE "exit"]

\* handle_query: some codes stand for no server; 4 and 8 ask a registry for the server first.
handle_query ==
  /\ s.pc = "handle" /\ Len(s.asked) < MaxQueries
  /\ LET code == s.server[1]
         name == s.server[2]
     IN \/ code \in {1, 3, 5, 6} /\ s' = [s EXCEPT !.pc = "none"]
        \/ code = 4 /\ \E next \in query_crsnic(name) : s' = Ask(Added(s, name), next)
        \/ code = 8 /\ \E next \in query_afilias : s' = Ask(Added(s, "whois.afilias-grs.info"), next)
        \/ code \in {0, 12} /\ s' = Ask(s, s.server)

\* do_query, with a referral that is handled the same way, or none; connect_host may fail.
do_query ==
  /\ s.pc = "ask" /\ Len(s.asked) < MaxQueries
  /\ \/ s' = [s EXCEPT !.pc = "exit"]
     \/ s' = [Added(s, s.server[2]) EXCEPT !.pc = "done"]
     \/ \E next \in Referred :
          s' = [Added(s, s.server[2]) EXCEPT !.pc = "handle", !.server = <<0, next>>]
Again == s.pc \in {"done", "none", "exit"} /\ s' = Idle

Asked == Domains \cup {<<"a">> \o row[1] : row \in ToSet(tld_serv)}
Next == (\E d \in Asked : whois(d)) \/ handle_query \/ do_query \/ Again
-----------------------------------------------------------------------------
\* The first server asked is that of the longest suffix of the domain in the table, though the code
\* takes the first row that fits: the order of the rows has to agree (whois.cc:121-143).
MostSpecific ==
  s.asked # <<>> /\ Hits(s.domain) # {} =>
    LET fits == {row \in ToSet(tld_serv) : isSubDomain(s.domain, row[1])}
    IN \E row \in fits :
         /\ \A other \in fits : Len(other[1]) <= Len(row[1])
         /\ s.asked[1] = IF row[2][1] = 8 THEN "whois.afilias-grs.info" ELSE row[2][2]
\* A domain that no suffix of the tables ends is asked of no server, and a new top level domain only
\* of its own registry first (whois.cc:130-143).
KnownOnly ==
  s.asked # <<>> => \/ Hits(s.domain) # {}
                    \/ NewHits(s.domain) # {} /\ \E i \in NewHits(s.domain) : s.asked[1] = new_gtlds[i][1]
WhoisRight == MostSpecific /\ KnownOnly
=============================================================================
