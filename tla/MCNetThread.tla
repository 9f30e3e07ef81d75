----------------------------- MODULE MCNetThread -----------------------------
(***************************************************************************)
(* Instances of NetThread for TLC.                                         *)
(***************************************************************************)
EXTENDS NetThread

\* lastRefreshTime in new memory: zero where no time passes, else also a time
\* that refresh never reaches.
Zeroed == {0}
Memories == {0, 9}

\* Peers of connections that are alive at the same time, or one after the
\* other while commands for the first wait, are different.
MCPeerOf == [c \in Conn |-> c]

OneTwoThree == 1..3
OneTwo == 1..2
One == {1}
OneThree == {1, 3}

SetReplyProgram == {<<"m">>, <<"s", "c">>}
CloseProgram == {<<"c">>}
=============================================================================
