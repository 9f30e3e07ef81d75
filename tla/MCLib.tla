-------------------------------- MODULE MCLib --------------------------------
(***************************************************************************)
(* Library for TLC, with the components that are called for a result as    *)
(* further parts.                                                          *)
(***************************************************************************)
EXTENDS Library

Sys == INSTANCE SysStat WITH Cpus <- 2, Hertz <- 2, Width <- 12, EndOfTime <- 3, Sleep <- 1
\* Every kind of server, the labels that end in one another, and what no table has.
Who == INSTANCE Whois WITH Room <- 5, MaxQueries <- 4, Referred <- {"r1", "r2"},
         Domains <- {<<"a", "br", "com">>, <<"b", "com">>, <<"com">>, <<"br", "com">>, <<"x", "mil">>,
                     <<"1", "in-addr", "arpa">>, <<"1", "arpa">>, <<"q", "bz">>, <<"q", "app">>, <<"q", "ar">>,
                     <<"x", "zz">>}
\* The characters: negative, a blank, '%', '+', a letter, and a mark that is kept.
Text == INSTANCE Strings WITH Characters <- {0 - 30, 32, 37, 43, 65, 95}, MaxText <- 2,
          Lengths <- {0, 1, 2, 3, 4, 7, 8}, Delimiters <- {32, 43}
Net  == INSTANCE NetBios WITH Hosts <- {1, 2}, Timeout <- 2, MaxAnswers <- 2, Queries <- 2,
          NameTables <- {<<>>, << <<"g", TRUE, TRUE>>, <<"a", FALSE, FALSE>>, <<"f", TRUE, FALSE>> >>}
\* Texts of RFC 1321, and others that leave room for the padding in their last block, or just not.
Abc  == <<97, 98, 99>>
Edge == [i \in 1..55 |-> i]
Long == [i \in 1..121 |-> i]
Digests == {<< <<>>, "d41d8cd98f00b204e9800998ecf8427e">>, <<Abc, "900150983cd24fb0d6963f7d28e17f72">>}
Md   == INSTANCE Md5 WITH Width <- 32, Texts <- {<<>>, Abc, Edge, Long}, Pieces <- {28, 64}, Known <- Digests
Md64 == INSTANCE Md5 WITH Width <- 64, Texts <- {}, Pieces <- {}, Known <- {}
Hash == INSTANCE Hashes WITH Chars <- {1, 97, 255}, MaxLength <- 3

MCInit == \/ Init
          \/ part = "sys" /\ Sys!Init
          \/ part = "who" /\ Who!Init
          \/ part = "text" /\ Text!Init
          \/ part = "net" /\ Net!Init
          \/ part = "md" /\ Md!Init
          \/ part = "hash" /\ Hash!Init
MCNext == \/ Next
          \/ In("sys") /\ Sys!Next
          \/ In("who") /\ Who!Next
          \/ In("text") /\ Text!Next
          \/ In("net") /\ Net!Next
          \/ In("md") /\ Md!Next
          \/ In("hash") /\ Hash!Next

MCSpec == MCInit /\ [][MCNext]_vars /\ Fairness

\* What log.conf says: one line, or lines of which the last but one wins, as the word of the last
\* is hidden.
MCConfigured == {<< <<0, "INFO">> >>, << <<0, "ERROR">>, <<1, "WARN">>, <<2, "DEBUG">> >>}
-----------------------------------------------------------------------------
\* What a call returns is what its reference definition says, however the input comes in pieces and
\* whatever happens in between (md5.cc:151-216, hash.cc:7-136, string.cc:22-213, netbios.cc:83-290,
\* cpu_usage.cc:139-442, whois.cc:101-375).
ResultsRight == /\ part = "md" => Md!DigestRight /\ Md!ChecksumRight /\ Md64!ChecksumRight
                /\ part = "hash" => Hash!HashesRight
                /\ part = "text" => Text!StringsRight
                /\ part = "net" => Net!NetbiosRight
                /\ part = "sys" => Sys!UsageRight
                /\ part = "who" => Who!WhoisRight
=============================================================================
